---- MODULE Spec2Model ----
(***************************************************************************)
(* kusa: reconciliation of requested against actual resources.            *)
(*                                                                         *)
(* The model follows one invocation of a command: a fetch (FetchNodes,     *)
(* FetchPods or FetchWorkloads) spawns one listing task per API listing in *)
(* an errgroup, waits for them, aggregates the listings into summaries and *)
(* hands the result to the renderer of the command.                        *)
(***************************************************************************)
EXTENDS Integers, Sequences, FiniteSets, TLC

\* ------------------------------------------------------------------ bounds

\* Longest pod listing the API returns.
MaxPods == 2

\* ------------------------------------------------------------- Go helpers

\* a nil *List pointer; a non-nil one is [isNil |-> FALSE, Items |-> <<...>>]
NilList == [isNil |-> TRUE, Items |-> <<>>]

List(items) == [isNil |-> FALSE, Items |-> items]

\* a nil *Fetch...Result
NilResult == [isNil |-> TRUE]

\* the nil error
NilErr == "nil"

Range(s) == {s[i] : i \in DOMAIN s}

\* ------------------------------------------------------- the cluster (API)

SystemNamespaces == {"kube-system", "kube-public", "kube-node-lease"}

PodRunning == "Running"

Ctr(cpuReq, cpuLim, memReq, memLim) ==
    [cpuReq |-> cpuReq, cpuLim |-> cpuLim, memReq |-> memReq, memLim |-> memLim]

Ref(kind, name) == [Kind |-> kind, Name |-> name]

Shape(ns, phase, node, ctrs, owners) ==
    [Namespace |-> ns, Phase |-> phase, NodeName |-> node,
     Containers |-> ctrs, OwnerReferences |-> owners]

\* Pods the API may list for the nodes and pods reports (owner references are
\* not read there).
NodePodShapes ==
    { Shape("default", "Running", "n1", <<Ctr(100, 0, 64, 0)>>, <<>>),
      Shape("kube-system", "Running", "n1", <<Ctr(200, 400, 128, 256)>>, <<>>),
      Shape("default", "Pending", "n1", <<Ctr(300, 0, 64, 0)>>, <<>>),
      Shape("default", "Running", "", <<Ctr(100, 0, 64, 0)>>, <<>>),
      Shape("default", "Running", "n2", <<Ctr(100, 0, 64, 0), Ctr(50, 0, 0, 0)>>, <<>>),
      Shape("default", "Running", "n1", <<Ctr(0, 0, 0, 0)>>, <<>>) }

\* Pods the API may list for the workloads report (the node is not read there).
WorkloadPodShapes ==
    { Shape("default", "Running", "n1", <<Ctr(100, 0, 64, 0)>>,
            <<Ref("ReplicaSet", "rs1")>>),
      Shape("default", "Running", "n1", <<Ctr(200, 0, 128, 0)>>,
            <<Ref("ReplicaSet", "rs2")>>),
      Shape("default", "Running", "n1", <<Ctr(100, 0, 64, 0), Ctr(50, 0, 0, 0)>>, <<>>),
      Shape("kube-system", "Running", "n1", <<Ctr(100, 0, 64, 0)>>,
            <<Ref("DaemonSet", "ds1")>>),
      Shape("default", "Pending", "n1", <<Ctr(300, 0, 64, 0)>>,
            <<Ref("ReplicaSet", "rs1")>>),
      Shape("default", "Running", "n1", <<Ctr(0, 0, 0, 0)>>,
            <<Ref("Node", "n1"), Ref("StatefulSet", "ss1"), Ref("Job", "j1")>>),
      Shape("kube-system", "Running", "n1", <<Ctr(100, 0, 64, 0)>>,
            <<Ref("Job", "j1"), Ref("ReplicaSet", "rs1")>>) }

PodNames == <<"p1", "p2", "p3", "p4">>

\* The i-th pod of a listing is named PodNames[i]: names are unique in a namespace.
NamedPods(shapes) ==
    [i \in DOMAIN shapes |->
        [Namespace |-> shapes[i].Namespace, Name |-> PodNames[i],
         Phase |-> shapes[i].Phase, NodeName |-> shapes[i].NodeName,
         Containers |-> shapes[i].Containers,
         OwnerReferences |-> shapes[i].OwnerReferences]]

PodListings(shapeSet) ==
    { NamedPods(s) : s \in UNION { [1..n -> shapeSet] : n \in 0..MaxPods } }

Node(name, cpu, mem) == [Name |-> name, AllocatableCPU |-> cpu, AllocatableMem |-> mem]

NodeListings ==
    { <<Node("n1", 1000, 1024)>>,
      <<Node("n1", 400, 1024), Node("n2", 0, 0)>> }

NodeUsage(name, cpu, mem) == [Name |-> name, CPU |-> cpu, Mem |-> mem]

NodeMetricsListings ==
    { <<NodeUsage("n1", 100, 64)>>,
      <<NodeUsage("n1", 0, 0), NodeUsage("n2", 500, 512)>> }

CtrUsage(cpu, mem) == [CPU |-> cpu, Mem |-> mem]

PodUsage(ns, name, ctrs) == [Namespace |-> ns, Name |-> name, Containers |-> ctrs]

PodMetricsListings ==
    { <<PodUsage("default", "p1", <<CtrUsage(10, 32)>>)>>,
      <<PodUsage("default", "p1", <<CtrUsage(0, 0)>>),
        PodUsage("default", "p2", <<CtrUsage(150, 16), CtrUsage(100, 16)>>)>>,
      <<PodUsage("kube-system", "p1", <<CtrUsage(40, 8)>>),
        PodUsage("default", "p2", <<CtrUsage(100, 64)>>)>> }

ReplicaSet(ns, name, owners) ==
    [Namespace |-> ns, Name |-> name, OwnerReferences |-> owners]

ReplicaSetListings ==
    { <<ReplicaSet("default", "rs1", <<Ref("Deployment", "dep1")>>),
        ReplicaSet("default", "rs2", <<>>)>>,
      <<ReplicaSet("default", "rs1",
                   <<Ref("Foo", "x"), Ref("Deployment", "dep1"), Ref("Deployment", "dep2")>>),
        ReplicaSet("default", "rs2", <<Ref("Deployment", "dep1")>>)>> }

Namespaces == {"", "kube-system"}

\* ---------------------------------------------------------------- state

VARIABLES
    fn,                \* the fetch of this invocation
    withPodMetrics,    \* FetchNodes' argument
    includeSystem,     \* FetchWorkloads' argument
    namespace,         \* FetchPods' argument
    mainPc,            \* the command: "go", "wait", "joined", "returned", "rendered"
    spawned,           \* g.Go calls made so far
    taskPc,            \* each listing task: "none", "listing", "done"
    taskErr,           \* err of each task's listing call: "ok", "api", "ctx"
    slot,              \* the result variables nodes, pods, nodeMetrics, podMetrics, replicaSets
    nodeMetricsAvail,
    podMetricsAvail,   \* podMetricsAvail of FetchNodes, metricsAvail of FetchPods/FetchWorkloads
    gerr,              \* the errgroup's first error
    gctxDone,          \* gctx is cancelled
    result,
    err,
    resolved,          \* the calls of resolveWorkloadOwner made: <<[pod, owner]>>
    rows,              \* the tables of the last Render call
    renderArgs,        \* the arguments of that call after the result and context
    listed,            \* history: what each task's listing call returned
    writers,           \* history: the tasks that wrote each variable
    failOrder,         \* history: the tasks that returned an error, in order
    readEarly,         \* history: variables read while their task was running
    call               \* a call of one function on its own: [op, args, done, out]

vars == <<fn, withPodMetrics, includeSystem, namespace, mainPc, spawned, taskPc,
          taskErr, slot, nodeMetricsAvail, podMetricsAvail, gerr, gctxDone,
          result, err, resolved, rows, renderArgs, listed, writers, failOrder,
          readEarly, call>>

TaskNames == {"nodes", "pods", "nodeMetrics", "podMetrics", "replicaSets"}

Fetches == {"FetchNodes", "FetchPods", "FetchWorkloads"}

\* ------------------------------------------------------------ the fetches

\* Mutant: FetchPods starts the pod listing again after the metrics listing.
TasksRetryingPods(f, wpm) ==
    CASE f = "FetchNodes" ->
            <<"nodes", "pods", "nodeMetrics">> \o (IF wpm THEN <<"podMetrics">> ELSE <<>>)
      [] f = "FetchPods" -> <<"pods", "podMetrics", "pods">>
      [] f = "FetchWorkloads" -> <<"pods", "podMetrics", "replicaSets">>

\* The g.Go calls of each fetch, in program order.
Tasks(f, wpm) ==
    CASE f = "FetchNodes" ->
            <<"nodes", "pods", "nodeMetrics">> \o (IF wpm THEN <<"podMetrics">> ELSE <<>>)
      [] f = "FetchPods" -> <<"pods", "podMetrics">>
      [] f = "FetchWorkloads" -> <<"pods", "podMetrics", "replicaSets">>

\* A listing whose failure the task returns to the errgroup.
Core(t) == t \in {"nodes", "pods", "replicaSets"}

Started == {Tasks(fn, withPodMetrics)[i] : i \in 1..spawned}

\* The pods of a listing scoped to namespace ns ("" for all namespaces).
Scoped(items, ns) == SelectSeq(items, LAMBDA p : ns = "" \/ p.Namespace = ns)

\* What the API may answer to the listing of task t.
Listings(t) ==
    CASE t = "nodes" -> NodeListings
      [] t = "pods" ->
            IF fn = "FetchWorkloads" THEN PodListings(WorkloadPodShapes)
            ELSE { Scoped(l, namespace) : l \in PodListings(NodePodShapes) }
      [] t = "nodeMetrics" -> NodeMetricsListings
      [] t = "podMetrics" -> { Scoped(l, namespace) : l \in PodMetricsListings }
      [] t = "replicaSets" -> ReplicaSetListings

\* Mutant: both metrics tasks assign to the same variable.
SlotOfShared(t) == IF t = "podMetrics" THEN "nodeMetrics" ELSE t

\* The variable a task assigns its listing to.
SlotOf(t) == t

\* The error a task's function returns for listing error e.
ErrOf(t, e) ==
    CASE t = "nodes" -> "failed to list nodes: " \o e
      [] t = "pods" -> "failed to list pods: " \o e
      [] t = "replicaSets" -> "failed to list replicasets: " \o e
      [] OTHER -> NilErr

\* Mutant: the replica-set task swallows its error as the metrics tasks do.
ReturnsErrorSwallowed(t, e) == t \in {"nodes", "pods"} /\ e # "ok"

\* Mutant: a metrics task returns its error to the errgroup too.
ReturnsErrorAny(t, e) == e # "ok"

ReturnsError(t, e) == Core(t) /\ e # "ok"

\* Mutant: the warning is printed and the flag left as it was.
AvailAfterKept(flag, mine, e) == flag

\* if err != nil { fmt.Printf("Warning: ..."); xMetricsAvail = false }: a metrics
\* task's availability flag after its listing returned e.
AvailAfter(flag, mine, e) == IF mine /\ e # "ok" THEN FALSE ELSE flag

\* errgroup: errOnce keeps the first error.
ErrOnce(old, new) == IF old = NilErr THEN new ELSE old

\* Mutant: the join waits for the core listings only.
WaitGuardCoreOnly == \A t \in Started : Core(t) => taskPc[t] = "done"

\* errgroup: Wait blocks until every function passed to Go has returned.
WaitGuard == \A t \in Started : taskPc[t] = "done"

\* No function is called on its own while a command runs.
NoCall == [op |-> "none", args |-> <<>>, done |-> FALSE, out |-> ""]

Init ==
    /\ fn \in Fetches
    /\ withPodMetrics \in (IF fn = "FetchNodes" THEN BOOLEAN ELSE {FALSE})
    /\ includeSystem \in (IF fn = "FetchWorkloads" THEN BOOLEAN ELSE {FALSE})
    /\ namespace \in (IF fn = "FetchPods" THEN Namespaces ELSE {""})
    /\ mainPc = "go"
    /\ spawned = 0
    /\ taskPc = [t \in TaskNames |-> "none"]
    /\ taskErr = [t \in TaskNames |-> "ok"]
    /\ slot = [t \in TaskNames |-> NilList]
    /\ nodeMetricsAvail = TRUE
    /\ podMetricsAvail = TRUE
    /\ gerr = NilErr
    /\ gctxDone = FALSE
    /\ result = NilResult
    /\ err = NilErr
    /\ resolved = <<>>
    /\ rows = <<>>
    /\ renderArgs = <<>>
    /\ listed = [t \in TaskNames |-> NilList]
    /\ writers = [t \in TaskNames |-> {}]
    /\ failOrder = <<>>
    /\ readEarly = {}
    /\ call = NoCall

\* g.Go(func() error {...}): the next listing task starts.
Go ==
    /\ mainPc = "go"
    /\ LET ts == Tasks(fn, withPodMetrics)
           t == ts[spawned + 1]
       IN /\ spawned' = spawned + 1
          /\ taskPc' = [taskPc EXCEPT ![t] = "listing"]
          /\ mainPc' = IF spawned + 1 = Len(ts) THEN "wait" ELSE "go"
    /\ UNCHANGED <<call, fn, withPodMetrics, includeSystem, namespace, taskErr, slot,
                   nodeMetricsAvail, podMetricsAvail, gerr, gctxDone, result, err,
                   resolved, rows, renderArgs, listed, writers, failOrder, readEarly>>

\* func() error { x, err = clients...List(gctx, ...); if err != nil {...}; return }:
\* the listing call of task t returns and is assigned; a core task returns its
\* error to the errgroup, whose first error cancels gctx; a metrics task clears
\* its availability flag and returns nil. A failed call returns a nil or an
\* empty list, and can fail with the context's error only once gctx is
\* cancelled.
ListTask(t) ==
    /\ taskPc[t] = "listing"
    /\ taskPc' = [taskPc EXCEPT ![t] = "done"]
    /\ \E e \in {"ok", "api"} \cup (IF gctxDone THEN {"ctx"} ELSE {}) :
       \E l \in (IF e = "ok" THEN {List(i) : i \in Listings(t)}
                 ELSE {NilList, List(<<>>)}) :
          /\ taskErr' = [taskErr EXCEPT ![t] = e]
          /\ slot' = [slot EXCEPT ![SlotOf(t)] = l]
          /\ listed' = [listed EXCEPT ![t] = l]
          /\ writers' = [writers EXCEPT ![SlotOf(t)] = @ \cup {t}]
          /\ IF ReturnsError(t, e)
             THEN /\ gerr' = ErrOnce(gerr, ErrOf(t, e))
                  /\ gctxDone' = TRUE
                  /\ failOrder' = Append(failOrder, t)
             ELSE UNCHANGED <<gerr, gctxDone, failOrder>>
          /\ nodeMetricsAvail' = AvailAfter(nodeMetricsAvail, t = "nodeMetrics", e)
          /\ podMetricsAvail' = AvailAfter(podMetricsAvail, t = "podMetrics", e)
    /\ UNCHANGED <<call, fn, withPodMetrics, includeSystem, namespace, mainPc, spawned,
                   result, err, resolved, rows, renderArgs, readEarly>>

\* if err := g.Wait(); err != nil { return nil, err }
Wait ==
    /\ mainPc = "wait"
    /\ WaitGuard
    /\ gctxDone' = TRUE
    /\ IF gerr # NilErr
       THEN /\ mainPc' = "returned"
            /\ err' = gerr
            /\ result' = NilResult
       ELSE /\ mainPc' = "joined"
            /\ UNCHANGED <<err, result>>
    /\ UNCHANGED <<call, fn, withPodMetrics, includeSystem, namespace, spawned, taskPc,
                   taskErr, slot, nodeMetricsAvail, podMetricsAvail, gerr,
                   resolved, rows, renderArgs, listed, writers, failOrder, readEarly>>

\* ------------------------------------------------------------ aggregation

\* MillicoresFromQuantity and MiBFromQuantity: the model's quantities are whole
\* millicores and whole MiB already.
MillicoresFromQuantity(q) == q

MiBFromQuantity(q) == q

\* The map key "namespace/name".
Key(ns, name) == ns \o "/" \o name

\* for _, m := range list.Items { map[key(m)] = m }: a later item replaces an
\* earlier one of the same key; a nil list leaves the map empty.
MapOf(list, key(_)) ==
    IF list.isNil THEN <<>>
    ELSE LET items == list.Items
             keys == {key(items[i]) : i \in DOMAIN items}
         IN [k \in keys |->
                items[CHOOSE i \in DOMAIN items :
                         /\ key(items[i]) = k
                         /\ \A j \in DOMAIN items : key(items[j]) = k => j <= i]]

PodKey(p) == Key(p.Namespace, p.Name)

NodeKey(n) == n.Name

RECURSIVE SumSeq(_)
SumSeq(s) == IF s = <<>> THEN 0 ELSE Head(s) + SumSeq(Tail(s))

\* for _, x := range s { total += f(x) }
SumOver(s, f(_)) == SumSeq([i \in DOMAIN s |-> f(s[i])])

\* podInfoFromPod: the requests and limits of a pod summed over its containers.
podInfoFromPod(pod) ==
    [Namespace |-> pod.Namespace,
     Name |-> pod.Name,
     NodeName |-> pod.NodeName,
     CPURequest |-> SumOver(pod.Containers, LAMBDA c : MillicoresFromQuantity(c.cpuReq)),
     CPULimit |-> SumOver(pod.Containers, LAMBDA c : MillicoresFromQuantity(c.cpuLim)),
     MemRequest |-> SumOver(pod.Containers, LAMBDA c : MiBFromQuantity(c.memReq)),
     MemLimit |-> SumOver(pod.Containers, LAMBDA c : MiBFromQuantity(c.memLim)),
     CPUActual |-> 0,
     MemActual |-> 0,
     MetricsAvailable |-> FALSE]

\* Mutant: the usage is added and the summary's flag left as it was.
WithPodMetricsUnflagged(pi, pod, podMetricsMap) ==
    IF PodKey(pod) \in DOMAIN podMetricsMap
    THEN LET pm == podMetricsMap[PodKey(pod)]
         IN [pi EXCEPT
               !.CPUActual = @ + SumOver(pm.Containers, LAMBDA c : MillicoresFromQuantity(c.CPU)),
               !.MemActual = @ + SumOver(pm.Containers, LAMBDA c : MiBFromQuantity(c.Mem))]
    ELSE pi

\* if pm, ok := podMetricsMap[key]; ok {...}: the usage of the pod's containers
\* summed into the pod's summary.
WithPodMetrics(pi, pod, podMetricsMap) ==
    IF PodKey(pod) \in DOMAIN podMetricsMap
    THEN LET pm == podMetricsMap[PodKey(pod)]
         IN [pi EXCEPT
               !.MetricsAvailable = TRUE,
               !.CPUActual = @ + SumOver(pm.Containers, LAMBDA c : MillicoresFromQuantity(c.CPU)),
               !.MemActual = @ + SumOver(pm.Containers, LAMBDA c : MiBFromQuantity(c.Mem))]
    ELSE pi

\* Mutant: the phase is not looked at.
IsRunningAny(pod) == TRUE

\* if pod.Status.Phase != corev1.PodRunning { continue }
IsRunning(pod) == pod.Phase = PodRunning

\* Mutant: a running pod with no node name is put on every node.
PodsByNodeUnplaced(pods, name) ==
    SelectSeq(pods, LAMBDA p : IsRunning(p) /\ (p.NodeName = "" \/ p.NodeName = name))

\* podsByNode[name]: the running pods scheduled on the node, in listing order.
PodsByNode(pods, name) ==
    SelectSeq(pods, LAMBDA p : IsRunning(p) /\ p.NodeName # "" /\ p.NodeName = name)

\* Mutant: the totals leave out the pods of the system namespaces.
CountedOnNodeNonSystem(nodePods) ==
    SelectSeq(nodePods, LAMBDA pi : pi.Namespace \notin SystemNamespaces)

\* The pods whose requests a node's totals add up.
CountedOnNode(nodePods) == nodePods

\* One NodeInfo of FetchNodes.
NodeInfoOf(node, pods, nodeMetricsMap, podMetricsMap, wpm) ==
    LET nodePods == PodsByNode(pods, node.Name)
        infos == [i \in DOMAIN nodePods |->
                    IF wpm THEN WithPodMetrics(podInfoFromPod(nodePods[i]), nodePods[i],
                                               podMetricsMap)
                    ELSE podInfoFromPod(nodePods[i])]
        counted == CountedOnNode(infos)
        has == node.Name \in DOMAIN nodeMetricsMap
    IN [Name |-> node.Name,
        AllocatableCPU |-> MillicoresFromQuantity(node.AllocatableCPU),
        AllocatableMem |-> MiBFromQuantity(node.AllocatableMem),
        ActualCPU |-> IF has THEN MillicoresFromQuantity(nodeMetricsMap[node.Name].CPU) ELSE 0,
        ActualMem |-> IF has THEN MiBFromQuantity(nodeMetricsMap[node.Name].Mem) ELSE 0,
        MetricsAvailable |-> has,
        RequestedCPU |-> SumOver(counted, LAMBDA pi : pi.CPURequest),
        RequestedMem |-> SumOver(counted, LAMBDA pi : pi.MemRequest),
        Pods |-> infos]

\* FetchNodes after g.Wait().
AggregateNodes(s, nmAvail, pmAvail, wpm) ==
    LET nodeMetricsMap == MapOf(s["nodeMetrics"], NodeKey)
        podMetricsMap == MapOf(s["podMetrics"], PodKey)
        nodes == s["nodes"].Items
    IN [Nodes |-> [i \in DOMAIN nodes |->
                     NodeInfoOf(nodes[i], s["pods"].Items, nodeMetricsMap, podMetricsMap, wpm)],
        NodeMetricsAvailable |-> nmAvail,
        PodMetricsAvailable |-> wpm /\ pmAvail]

\* FetchPods after g.Wait().
AggregatePods(s, metricsAvail) ==
    LET podMetricsMap == MapOf(s["podMetrics"], PodKey)
        running == SelectSeq(s["pods"].Items, IsRunning)
    IN [Pods |-> [i \in DOMAIN running |->
                    WithPodMetrics(podInfoFromPod(running[i]), running[i], podMetricsMap)],
        MetricsAvailable |-> metricsAvail]

ownerKey(kind, ns, name) == [Kind |-> kind, Namespace |-> ns, Name |-> name]

RECURSIVE FirstDeployment(_)
\* for _, ref := range rs.OwnerReferences { if ref.Kind == "Deployment" {...; break} }
FirstDeployment(refs) ==
    IF refs = <<>> THEN <<>>
    ELSE IF Head(refs).Kind = "Deployment" THEN <<Head(refs)>>
    ELSE FirstDeployment(Tail(refs))

\* rsToDeployment: "namespace/replicaset-name" -> the Deployment owning it.
RsToDeployment(replicaSets) ==
    LET owned == SelectSeq(replicaSets.Items,
                           LAMBDA rs : FirstDeployment(rs.OwnerReferences) # <<>>)
        byKey == MapOf(List(owned), LAMBDA rs : Key(rs.Namespace, rs.Name))
    IN [k \in DOMAIN byKey |->
          ownerKey("Deployment", byKey[k].Namespace,
                   FirstDeployment(byKey[k].OwnerReferences)[1].Name)]

\* Mutant: the loop keeps going after a match, so the last recognized owner
\* reference wins.
ResolveRefsLast(refs, pod, rsToDeployment) ==
    LET rec == {i \in DOMAIN refs :
                  refs[i].Kind \in {"ReplicaSet", "StatefulSet", "DaemonSet", "Job"}}
    IN IF rec = {} THEN ownerKey("Pod", pod.Namespace, pod.Name)
       ELSE LET ref == refs[CHOOSE i \in rec : \A j \in rec : j <= i]
            IN IF ref.Kind = "ReplicaSet"
               THEN IF Key(pod.Namespace, ref.Name) \in DOMAIN rsToDeployment
                    THEN rsToDeployment[Key(pod.Namespace, ref.Name)]
                    ELSE ownerKey("ReplicaSet", pod.Namespace, ref.Name)
               ELSE ownerKey(ref.Kind, pod.Namespace, ref.Name)

RECURSIVE ResolveRefs(_, _, _)
\* for _, ref := range pod.OwnerReferences { switch ref.Kind {...} }: the first
\* reference of a recognized kind returns; the pod itself when none does.
ResolveRefs(refs, pod, rsToDeployment) ==
    IF refs = <<>> THEN ownerKey("Pod", pod.Namespace, pod.Name)
    ELSE LET ref == Head(refs)
         IN CASE ref.Kind = "ReplicaSet" ->
                    IF Key(pod.Namespace, ref.Name) \in DOMAIN rsToDeployment
                    THEN rsToDeployment[Key(pod.Namespace, ref.Name)]
                    ELSE ownerKey("ReplicaSet", pod.Namespace, ref.Name)
              [] ref.Kind \in {"StatefulSet", "DaemonSet", "Job"} ->
                    ownerKey(ref.Kind, pod.Namespace, ref.Name)
              [] OTHER -> ResolveRefs(Tail(refs), pod, rsToDeployment)

\* Mutant: the replica set is never looked up.
resolveWorkloadOwnerNoHop(pod, rsToDeployment) ==
    ResolveRefs(pod.OwnerReferences, pod, <<>>)

\* resolveWorkloadOwner walks a pod's ownerReferences to its top-level controller.
resolveWorkloadOwner(pod, rsToDeployment) ==
    ResolveRefs(pod.OwnerReferences, pod, rsToDeployment)

\* The pods FetchWorkloads aggregates: running, and outside the system
\* namespaces unless includeSystem.
WorkloadPods(pods, inclSys) ==
    SelectSeq(pods, LAMBDA p : IsRunning(p) /\ (inclSys \/ p.Namespace \notin SystemNamespaces))

\* Mutant: the pod's workload is created anew each time instead of looked up.
AddPodOverwrite(workloadMap, pod, owner, podMetricsMap, metricsAvail) ==
    LET key == owner.Namespace \o "/" \o owner.Kind \o "/" \o owner.Name
        w == [Kind |-> owner.Kind, Namespace |-> owner.Namespace, Name |-> owner.Name,
              PodCount |-> 1,
              CPURequest |-> SumOver(pod.Containers, LAMBDA c : c.cpuReq),
              CPUActual |-> 0,
              MemRequest |-> SumOver(pod.Containers, LAMBDA c : c.memReq),
              MemActual |-> 0,
              MetricsAvailable |-> metricsAvail]
    IN [k \in DOMAIN workloadMap \cup {key} |-> IF k = key THEN w ELSE workloadMap[k]]

\* Mutant: a workload's availability flag is that of the pod creating it, true
\* when the pod is found in the metrics snapshot.
AddPodOwnFlag(workloadMap, pod, owner, podMetricsMap, metricsAvail) ==
    LET key == owner.Namespace \o "/" \o owner.Kind \o "/" \o owner.Name
        has == metricsAvail /\ PodKey(pod) \in DOMAIN podMetricsMap
        w0 == IF key \in DOMAIN workloadMap THEN workloadMap[key]
              ELSE [Kind |-> owner.Kind, Namespace |-> owner.Namespace, Name |-> owner.Name,
                    PodCount |-> 0, CPURequest |-> 0, CPUActual |-> 0,
                    MemRequest |-> 0, MemActual |-> 0,
                    MetricsAvailable |-> has]
        w1 == [w0 EXCEPT
                 !.PodCount = @ + 1,
                 !.CPURequest = @ + SumOver(pod.Containers, LAMBDA c : c.cpuReq),
                 !.MemRequest = @ + SumOver(pod.Containers, LAMBDA c : c.memReq),
                 !.CPUActual = @ + (IF has
                                    THEN SumOver(podMetricsMap[PodKey(pod)].Containers,
                                                 LAMBDA c : c.CPU)
                                    ELSE 0),
                 !.MemActual = @ + (IF has
                                    THEN SumOver(podMetricsMap[PodKey(pod)].Containers,
                                                 LAMBDA c : c.Mem)
                                    ELSE 0)]
    IN [k \in DOMAIN workloadMap \cup {key} |-> IF k = key THEN w1 ELSE workloadMap[k]]

\* The body of FetchWorkloads' loop for one pod: its workload is created when
\* first seen, counts the pod and adds its requests and, with metrics, usage.
AddPod(workloadMap, pod, owner, podMetricsMap, metricsAvail) ==
    LET key == owner.Namespace \o "/" \o owner.Kind \o "/" \o owner.Name
        w0 == IF key \in DOMAIN workloadMap THEN workloadMap[key]
              ELSE [Kind |-> owner.Kind, Namespace |-> owner.Namespace, Name |-> owner.Name,
                    PodCount |-> 0, CPURequest |-> 0, CPUActual |-> 0,
                    MemRequest |-> 0, MemActual |-> 0,
                    MetricsAvailable |-> metricsAvail]
        has == metricsAvail /\ PodKey(pod) \in DOMAIN podMetricsMap
        w1 == [w0 EXCEPT
                 !.PodCount = @ + 1,
                 !.CPURequest = @ + SumOver(pod.Containers,
                                            LAMBDA c : MillicoresFromQuantity(c.cpuReq)),
                 !.MemRequest = @ + SumOver(pod.Containers,
                                            LAMBDA c : MiBFromQuantity(c.memReq)),
                 !.CPUActual = @ + (IF has
                                    THEN SumOver(podMetricsMap[PodKey(pod)].Containers,
                                                 LAMBDA c : MillicoresFromQuantity(c.CPU))
                                    ELSE 0),
                 !.MemActual = @ + (IF has
                                    THEN SumOver(podMetricsMap[PodKey(pod)].Containers,
                                                 LAMBDA c : MiBFromQuantity(c.Mem))
                                    ELSE 0)]
    IN [k \in DOMAIN workloadMap \cup {key} |-> IF k = key THEN w1 ELSE workloadMap[k]]

RECURSIVE WorkloadMap(_, _, _, _)
\* for _, pod := range pods.Items {...}: workloadMap after the loop.
WorkloadMap(pods, rsToDeployment, podMetricsMap, metricsAvail) ==
    IF pods = <<>> THEN <<>>
    ELSE LET n == Len(pods)
             before == WorkloadMap(SubSeq(pods, 1, n - 1), rsToDeployment, podMetricsMap,
                                   metricsAvail)
         IN AddPod(before, pods[n], resolveWorkloadOwner(pods[n], rsToDeployment),
                   podMetricsMap, metricsAvail)

\* for _, w := range workloadMap { append }: Go iterates a map in no fixed order.
MapOrders(m) ==
    LET ks == DOMAIN m
    IN { [i \in DOMAIN o |-> m[o[i]]] :
           o \in {q \in [1..Cardinality(ks) -> ks] : Range(q) = ks} }

\* FetchWorkloads after g.Wait(): the results it can return.
AggregateWorkloads(s, metricsAvail, inclSys) ==
    LET wm == WorkloadMap(WorkloadPods(s["pods"].Items, inclSys),
                          RsToDeployment(s["replicaSets"]),
                          MapOf(s["podMetrics"], PodKey), metricsAvail)
    IN { [Workloads |-> ws, MetricsAvailable |-> metricsAvail] : ws \in MapOrders(wm) }

\* The calls of resolveWorkloadOwner FetchWorkloads makes, with their results.
ResolveCalls(s, inclSys) ==
    LET ps == WorkloadPods(s["pods"].Items, inclSys)
        m == RsToDeployment(s["replicaSets"])
    IN [i \in DOMAIN ps |-> [pod |-> ps[i], owner |-> resolveWorkloadOwner(ps[i], m)]]

\* The variables the aggregation of fetch f reads: those its tasks assign, and
\* in FetchNodes podMetrics also when no task was started for it.
ReadVars(f, wpm) ==
    {SlotOf(Tasks(f, wpm)[i]) : i \in DOMAIN Tasks(f, wpm)}
        \cup (IF f = "FetchNodes" THEN {"podMetrics"} ELSE {})

\* The rest of the fetch after g.Wait() returned nil: build the maps, aggregate
\* and return the result.
Aggregate ==
    /\ mainPc = "joined"
    /\ mainPc' = "returned"
    /\ err' = NilErr
    /\ readEarly' = {v \in ReadVars(fn, withPodMetrics) :
                       \E t \in Started : SlotOf(t) = v /\ taskPc[t] # "done"}
    /\ CASE fn = "FetchNodes" ->
              /\ result' = AggregateNodes(slot, nodeMetricsAvail, podMetricsAvail,
                                          withPodMetrics)
              /\ UNCHANGED resolved
         [] fn = "FetchPods" ->
              /\ result' = AggregatePods(slot, podMetricsAvail)
              /\ UNCHANGED resolved
         [] fn = "FetchWorkloads" ->
              /\ result' \in AggregateWorkloads(slot, podMetricsAvail, includeSystem)
              /\ resolved' = ResolveCalls(slot, includeSystem)
    /\ UNCHANGED <<call, fn, withPodMetrics, includeSystem, namespace, spawned, taskPc,
                   taskErr, slot, nodeMetricsAvail, podMetricsAvail, gerr, gctxDone,
                   rows, renderArgs, listed, writers, failOrder>>

\* -------------------------------------------------------------- analysis

\* a / b on Go integers: the quotient truncated toward zero.
Quot(a, b) ==
    LET abs(x) == IF x < 0 THEN -x ELSE x
        q == abs(a) \div abs(b)
    IN IF (a < 0) = (b < 0) THEN q ELSE -q

\* A float64: the one nearest to the fraction n/d (d > 0) times 10^e, which
\* is what float64(n) / float64(d) is for e = 0.
Num(n, d) == [n |-> n, d |-> d, e |-> 0]

RECURSIVE Exponent(_, _)
\* The binary exponent of n/d > 0: the e with 2^e <= n/d < 2^(e+1).
Exponent(n, d) ==
    IF n >= 2 * d THEN Exponent(n, 2 * d) + 1
    ELSE IF n < d THEN Exponent(2 * n, d) - 1
    ELSE 0

RECURSIVE ShiftMod(_, _, _)
\* (x * 2^s) mod d
ShiftMod(x, s, d) == IF s = 0 THEN x % d ELSE ShiftMod((2 * (x % d)) % d, s - 1, d)

RECURSIVE Pow2(_)
Pow2(k) == IF k = 0 THEN 1 ELSE 2 * Pow2(k - 1)

RECURSIVE GCD(_, _)
GCD(a, b) == IF b = 0 THEN a ELSE GCD(b, a % b)

\* The rounding error of the float64 nearest to n/d >= 0, in units of
\* 1 / (d * 2^(52 - Exponent(n, d))): the 53-bit significand is n * 2^s / d
\* rounded to the nearest integer, halves to even.
RoundingError(n, d) ==
    IF n = 0 THEN 0
    ELSE LET s == 52 - Exponent(n, d)
             r == ShiftMod(n, s, d)
         IN IF 2 * r < d THEN -r
            ELSE IF 2 * r > d THEN d - r
            ELSE IF ShiftMod(n, s, 2 * d) = r THEN -r ELSE d - r

\* a > b for two such numbers: rounding keeps the order of two fractions,
\* and two different fractions of the model are further apart than their
\* rounding errors. Every integer of the model is below 10^9, so a number
\* with e = 15 and n >= 1 exceeds every number with e = 0.
Greater(a, b) ==
    IF a.e = b.e THEN a.n * b.d > b.n * a.d
    ELSE IF a.e > b.e THEN a.n > 0 \/ (a.n = 0 /\ b.n < 0)
    ELSE b.n < 0 \/ (b.n = 0 /\ a.n > 0)

\* a - b > k in float64 for two such numbers (e = 0) and an integer k >= 2.
\* When the fractions do not differ by k exactly, they are further from it
\* than the rounding errors. When they do, the difference of the two floats
\* is k + (error of a) - (error of b), and its float64 is above k when it is
\* above k by more than half the spacing 2^(Exponent(k, 1) - 52) of the floats
\* from k up.
DiffGreater(a, b, k) ==
    LET exact == a.n * b.d - b.n * a.d - k * a.d * b.d
    IN IF exact # 0 THEN exact > 0
       ELSE LET ea == IF a.n = 0 THEN 0 ELSE Exponent(a.n, a.d)
                eb == IF b.n = 0 THEN 0 ELSE Exponent(b.n, b.d)
                low == IF ea < eb THEN ea ELSE eb
                m == IF low < -1 THEN -low ELSE 1
                g == GCD(a.d, b.d)
            IN RoundingError(a.n, a.d) * (b.d \div g) * Pow2(ea + m)
                  - RoundingError(b.n, b.d) * (a.d \div g) * Pow2(eb + m)
               > (a.d \div g) * b.d * Pow2(Exponent(k, 1) - 1 + m)

VerdictMassivelyOverRequested == [Label |-> "Massively over-requested", Color |-> "FgRed"]

VerdictOverRequested == [Label |-> "Over-requested", Color |-> "FgYellow"]

VerdictBursting == [Label |-> "Bursting", Color |-> "FgMagenta"]

VerdictOK == [Label |-> "OK", Color |-> "FgGreen"]

Verdicts == {VerdictMassivelyOverRequested, VerdictOverRequested, VerdictBursting, VerdictOK}

\* Mutant: the two thresholds are inclusive.
ResourceVerdictInclusive(requestedPct, actualPct) ==
    LET diffN == requestedPct.n * actualPct.d - actualPct.n * requestedPct.d
        dd == requestedPct.d * actualPct.d
    IN IF diffN >= 50 * dd THEN VerdictMassivelyOverRequested
       ELSE IF diffN >= 20 * dd THEN VerdictOverRequested
       ELSE IF Greater(actualPct, requestedPct) THEN VerdictBursting
       ELSE VerdictOK

\* ResourceVerdict returns the verdict given requested% and actual% usage.
ResourceVerdict(requestedPct, actualPct) ==
    IF DiffGreater(requestedPct, actualPct, 50) THEN VerdictMassivelyOverRequested
    ELSE IF DiffGreater(requestedPct, actualPct, 20) THEN VerdictOverRequested
    ELSE IF Greater(actualPct, requestedPct) THEN VerdictBursting
    ELSE VerdictOK

\* Mutant: a factor on a threshold falls in the tier below.
FactorColorsExclusive(req, actual) ==
    IF req = 0 \/ actual = 0 THEN <<"Faint">>
    ELSE LET factor == Quot(req, actual)
         IN IF factor > 50 THEN <<"Bold", "FgRed">>
            ELSE IF factor > 10 THEN <<"FgRed">>
            ELSE IF factor > 3 THEN <<"FgYellow">>
            ELSE <<"FgGreen">>

\* FactorColors returns the display colors for a CPU over-request factor.
FactorColors(req, actual) ==
    IF req = 0 \/ actual = 0 THEN <<"Faint">>
    ELSE LET factor == Quot(req, actual)
         IN IF factor >= 50 THEN <<"Bold", "FgRed">>
            ELSE IF factor >= 10 THEN <<"FgRed">>
            ELSE IF factor >= 3 THEN <<"FgYellow">>
            ELSE <<"FgGreen">>

\* ------------------------------------------------------------- formatting

\* n/d (n >= 0, d > 0) rounded to the nearest integer, halves to even, as
\* fmt's %.0f rounds.
Round(n, d) ==
    LET q == n \div d
        r == n % d
    IN IF 2 * r < d THEN q
       ELSE IF 2 * r > d THEN q + 1
       ELSE IF q % 2 = 0 THEN q ELSE q + 1

Pad2(n) == IF n < 10 THEN "0" \o ToString(n) ELSE ToString(n)

\* fmt's %.2f of the float64 nearest to n/1000, in hundredths: the float is
\* rounded exactly, halves to even. Only when n/1000 lies halfway between two
\* hundredths does the float's rounding error decide.
Hundredths(n) ==
    LET h == n \div 10
        last == n % 10
        rho == RoundingError(n, 1000)
    IN IF last < 5 THEN h
       ELSE IF last > 5 THEN h + 1
       ELSE IF rho < 0 THEN h
       ELSE IF rho > 0 THEN h + 1
       ELSE IF h % 2 = 0 THEN h ELSE h + 1

\* FormatCPU formats millicores as "250m" or "1.50" (cores) when >= 1000m.
FormatCPU(millicores) ==
    IF millicores = 0 THEN "0"
    ELSE IF millicores < 1000 THEN ToString(millicores) \o "m"
    ELSE IF millicores % 1000 = 0 THEN ToString(millicores \div 1000)
    ELSE LET h == Hundredths(millicores)
         IN ToString(h \div 100) \o "." \o Pad2(h % 100)

\* FormatMem formats a MiB value as "512Mi" or "1.5Gi".
FormatMem(mib) ==
    IF mib >= 1024
    THEN IF mib % 1024 = 0 THEN ToString(mib \div 1024) \o "Gi"
         ELSE LET t == Round(mib * 10, 1024)
              IN ToString(t \div 10) \o "." \o ToString(t % 10) \o "Gi"
    ELSE ToString(mib) \o "Mi"

\* Mutant: the quotient is rounded to the nearest integer.
FormatFactorRounded(req, actual) ==
    IF req = 0 THEN "no req"
    ELSE IF actual = 0 THEN "N/A"
    ELSE ToString(Round(req, actual)) \o "x"

\* Mutant: the factor shown is actual over request.
FormatFactorInverse(req, actual) ==
    IF req = 0 THEN "no req"
    ELSE IF actual = 0 THEN "N/A"
    ELSE ToString(Quot(actual, req)) \o "x"

\* FormatFactor returns the over-request factor string: "42x", "N/A" (actual=0),
\* or "no req" (req=0).
FormatFactor(req, actual) ==
    IF req = 0 THEN "no req"
    ELSE IF actual = 0 THEN "N/A"
    ELSE ToString(Quot(req, actual)) \o "x"

\* ---------------------------------------------------------------- output

cv(s) == [text |-> s, colors |-> <<>>]

cvColored(s, c) == [text |-> s, colors |-> c]

naCell == cvColored("N/A", <<"Faint">>)

\* safePctInt and safePctFloat: value as a percentage of total, 0 for total 0:
\* the float64 of value * 100 / total, value * 100 being exact.
safePct(value, total) == IF total = 0 THEN Num(0, 1) ELSE Num(value * 100, total)

\* fmt.Sprintf("%.0f%% (%s)", pct, s)
PctCell(pct, s) == ToString(Round(pct.n, pct.d)) \o "% (" \o s \o ")"

\* Mutant: a negative threshold also passes a pod using exactly its request.
meetsFactorFilterAtRequest(req, actual, metricsAvail, threshold) ==
    IF threshold = 0 THEN TRUE
    ELSE IF req = 0 \/ ~metricsAvail THEN FALSE
    ELSE IF threshold < 0 THEN actual >= req
    ELSE IF actual = 0 THEN TRUE
    ELSE Quot(req, actual) >= threshold

\* meetsFactorFilter reports whether a req/actual pair satisfies a --min-factor
\* threshold.
meetsFactorFilter(req, actual, metricsAvail, threshold) ==
    IF threshold = 0 THEN TRUE
    ELSE IF req = 0 \/ ~metricsAvail THEN FALSE
    ELSE IF threshold < 0 THEN actual > req
    ELSE IF actual = 0 THEN TRUE
    ELSE Quot(req, actual) >= threshold

\* Mutant: the verdict is computed without looking at the availability.
verdictFromRatioNoAvail(req, actual, metricsAvail) ==
    IF req = 0 THEN cvColored("no req", <<"Faint">>)
    ELSE LET v == ResourceVerdict(Num(100, 1), Num(actual * 100, req))
         IN cvColored(v.Label, <<v.Color>>)

\* Mutant: the availability is checked before the request.
verdictFromRatioAvailFirst(req, actual, metricsAvail) ==
    IF ~metricsAvail THEN naCell
    ELSE IF req = 0 THEN cvColored("no req", <<"Faint">>)
    ELSE LET v == ResourceVerdict(Num(100, 1), Num(actual * 100, req))
         IN cvColored(v.Label, <<v.Color>>)

\* verdictFromRatio computes a verdict by treating req as 100% and expressing
\* actual as a percentage of it. actual/req*100 is rounded twice; where a
\* threshold is met exactly the quotient is 0.5, or the float of 0.8 whose
\* hundredfold rounds to 80, so the verdict is that of actual*100/req.
verdictFromRatio(req, actual, metricsAvail) ==
    IF req = 0 THEN cvColored("no req", <<"Faint">>)
    ELSE IF ~metricsAvail THEN naCell
    ELSE LET v == ResourceVerdict(Num(100, 1), Num(actual * 100, req))
         IN cvColored(v.Label, <<v.Color>>)

\* A table row: the cell under each header.
Row(headers, cells) == [h \in Range(headers) |-> cells[CHOOSE i \in DOMAIN headers : headers[i] = h]]

Table(title, rws) == [title |-> title, rows |-> rws]

\* filtered := xs[:0]; for _, x := range xs { if keep(x) { filtered = append(filtered, x) } }:
\* the kept elements overwrite the front of the array xs is a slice of; the
\* rest of the array keeps what it held.
FilterInPlace(arr, n, keep(_)) ==
    LET kept == SelectSeq(SubSeq(arr, 1, n), keep)
    IN [arr |-> kept \o SubSeq(arr, Len(kept) + 1, Len(arr)), len |-> Len(kept)]

\* sort.Slice(s, less): s reordered so that no element is less than one before
\* it. A slice of at most 12 elements, as all slices here are, is sorted by
\* insertion, which keeps elements neither of which is less in the order they
\* had. The set of the one outcome.
SortSlice(s, less(_, _)) ==
    { [i \in DOMAIN s |-> s[p[i]]] :
        p \in { q \in [DOMAIN s -> DOMAIN s] :
                  /\ Range(q) = DOMAIN s
                  /\ \A i, j \in DOMAIN s :
                        i < j => /\ ~less(s[q[j]], s[q[i]])
                                 /\ (~less(s[q[i]], s[q[j]]) => q[i] < q[j]) } }

\* pods = pods[:limit]
Limited(s, limit) == IF limit > 0 /\ Len(s) > limit THEN SubSeq(s, 1, limit) ELSE s

NodesHeaders ==
    <<"Node", "CPU Actual", "CPU Requested", "CPU Verdict",
      "Mem Actual", "Mem Requested", "Mem Verdict">>

\* One row of renderNodesMain.
NodeRow(res, node) ==
    LET cpuActualPct == safePct(node.ActualCPU, node.AllocatableCPU)
        cpuReqPct == safePct(node.RequestedCPU, node.AllocatableCPU)
        memActualPct == safePct(node.ActualMem, node.AllocatableMem)
        memReqPct == safePct(node.RequestedMem, node.AllocatableMem)
        avail == res.NodeMetricsAvailable /\ node.MetricsAvailable
        cpuV == ResourceVerdict(cpuReqPct, cpuActualPct)
        memV == ResourceVerdict(memReqPct, memActualPct)
    IN Row(NodesHeaders,
           << cv(node.Name),
              IF avail THEN cv(PctCell(cpuActualPct, FormatCPU(node.ActualCPU))) ELSE naCell,
              cv(PctCell(cpuReqPct, FormatCPU(node.RequestedCPU))),
              IF avail THEN cvColored(cpuV.Label, <<cpuV.Color>>) ELSE naCell,
              IF avail THEN cv(PctCell(memActualPct, FormatMem(node.ActualMem))) ELSE naCell,
              cv(PctCell(memReqPct, FormatMem(node.RequestedMem))),
              IF avail THEN cvColored(memV.Label, <<memV.Color>>) ELSE naCell >>)

\* renderNodesMain: the nodes table.
renderNodesMain(res) ==
    Table("Nodes", [i \in DOMAIN res.Nodes |-> NodeRow(res, res.Nodes[i])])

OverviewHeaders ==
    <<"Namespace", "Pod", "CPU Req", "CPU Limit", "CPU Actual", "Over-req",
      "Mem Req", "Mem Limit", "Mem Actual">>

\* One row of renderNodesPodOverview.
OverviewRow(res, pod) ==
    LET avail == res.PodMetricsAvailable /\ pod.MetricsAvailable
    IN Row(OverviewHeaders,
           << cv(pod.Namespace),
              cv(pod.Name),
              cv(FormatCPU(pod.CPURequest)),
              cv(IF pod.CPULimit = 0 THEN "-" ELSE FormatCPU(pod.CPULimit)),
              IF avail THEN cv(FormatCPU(pod.CPUActual)) ELSE naCell,
              cvColored(FormatFactor(pod.CPURequest, pod.CPUActual),
                        FactorColors(pod.CPURequest, pod.CPUActual)),
              cv(FormatMem(pod.MemRequest)),
              cv(IF pod.MemLimit = 0 THEN "-" ELSE FormatMem(pod.MemLimit)),
              IF avail THEN cv(FormatMem(pod.MemActual)) ELSE naCell >>)

NotSystem(p) == p.Namespace \notin SystemNamespaces

\* Mutant: the pods are ordered by request/actual instead.
ByOverRequest(a, b) == a.CPURequest * b.CPUActual > b.CPURequest * a.CPUActual

\* func(i, j int) bool { return pods[i].CPURequest > pods[j].CPURequest }
ByCPURequest(a, b) == a.CPURequest > b.CPURequest

\* The loop body of renderNodesPodOverview for one node: what node.Pods can
\* hold afterwards, with the pods shown. The filter and the sort work on the
\* array of node.Pods itself.
OverviewOfNode(node, inclSys) ==
    LET f == IF inclSys THEN [arr |-> node.Pods, len |-> Len(node.Pods)]
             ELSE FilterInPlace(node.Pods, Len(node.Pods), NotSystem)
    IN IF f.len = 0 THEN { [Pods |-> f.arr, shown |-> <<>>] }
       ELSE { [Pods |-> t \o SubSeq(f.arr, f.len + 1, Len(f.arr)), shown |-> t] :
                t \in SortSlice(SubSeq(f.arr, 1, f.len), ByCPURequest) }

\* renderNodesPodOverview: one table per node that has pods to show.
OverviewTables(res, shown) ==
    LET idx == SelectSeq([i \in DOMAIN res.Nodes |-> i], LAMBDA i : shown[i] # <<>>)
    IN [k \in DOMAIN idx |->
          Table("Pod Overview: " \o res.Nodes[idx[k]].Name,
                [j \in DOMAIN shown[idx[k]] |-> OverviewRow(res, shown[idx[k]][j])])]

\* RenderNodes renders the nodes table and, with podOverview, the per-node
\* pod tables.
RenderNodes(inclSys, podOverview) ==
    /\ fn = "FetchNodes"
    /\ mainPc = "returned"
    /\ err = NilErr
    /\ mainPc' = "rendered"
    /\ renderArgs' = <<inclSys, podOverview>>
    /\ IF podOverview
       THEN \E o \in [DOMAIN result.Nodes ->
                        UNION {OverviewOfNode(result.Nodes[i], inclSys) : i \in DOMAIN result.Nodes}] :
               /\ \A i \in DOMAIN result.Nodes : o[i] \in OverviewOfNode(result.Nodes[i], inclSys)
               /\ rows' = <<renderNodesMain(result)>>
                          \o OverviewTables(result, [i \in DOMAIN o |-> o[i].shown])
               /\ result' = [result EXCEPT
                               !.Nodes = [i \in DOMAIN result.Nodes |->
                                            [result.Nodes[i] EXCEPT !.Pods = o[i].Pods]]]
       ELSE /\ rows' = <<renderNodesMain(result)>>
            /\ UNCHANGED result
    /\ UNCHANGED <<call, fn, withPodMetrics, includeSystem, namespace, spawned, taskPc,
                   taskErr, slot, nodeMetricsAvail, podMetricsAvail, gerr, gctxDone,
                   err, resolved, listed, writers, failOrder, readEarly>>

PodsHeaders ==
    <<"#", "Namespace", "Pod", "Node", "CPU Req", "CPU Actual", "Over-req", "CPU Verdict",
      "Mem Req", "Mem Actual", "Mem Verdict">>

\* One row of RenderPods.
PodRow(res, i, pod) ==
    LET metricsAvail == res.MetricsAvailable /\ pod.MetricsAvailable
    IN Row(PodsHeaders,
           << cv(ToString(i)),
              cv(pod.Namespace),
              cv(pod.Name),
              cv(pod.NodeName),
              cv(FormatCPU(pod.CPURequest)),
              IF metricsAvail THEN cv(FormatCPU(pod.CPUActual)) ELSE naCell,
              cvColored(FormatFactor(pod.CPURequest, pod.CPUActual),
                        FactorColors(pod.CPURequest, pod.CPUActual)),
              verdictFromRatio(pod.CPURequest, pod.CPUActual, metricsAvail),
              cv(FormatMem(pod.MemRequest)),
              IF metricsAvail THEN cv(FormatMem(pod.MemActual)) ELSE naCell,
              verdictFromRatio(pod.MemRequest, pod.MemActual, metricsAvail) >>)

\* RenderPods up to the sort: the array of result.Pods and the length of the
\* slice of it that passed the filters.
FilteredPods(res, inclSys, minFactor) ==
    LET f1 == IF inclSys THEN [arr |-> res.Pods, len |-> Len(res.Pods)]
              ELSE FilterInPlace(res.Pods, Len(res.Pods), NotSystem)
    IN IF minFactor = 0 THEN f1
       ELSE FilterInPlace(f1.arr, f1.len,
                          LAMBDA p : meetsFactorFilter(p.CPURequest, p.CPUActual,
                                                       res.MetricsAvailable /\ p.MetricsAvailable,
                                                       minFactor))

\* RenderPods renders the pods table: filter, sort by CPU request, take the
\* top limit.
RenderPods(inclSys, limit, minFactor) ==
    /\ fn = "FetchPods"
    /\ mainPc = "returned"
    /\ err = NilErr
    /\ mainPc' = "rendered"
    /\ renderArgs' = <<inclSys, limit, minFactor>>
    /\ LET f == FilteredPods(result, inclSys, minFactor)
       IN \E t \in SortSlice(SubSeq(f.arr, 1, f.len), ByCPURequest) :
             LET shown == Limited(t, limit)
             IN /\ rows' = <<Table("Top Pods",
                                   [i \in DOMAIN shown |-> PodRow(result, i, shown[i])])>>
                /\ result' = [result EXCEPT !.Pods = t \o SubSeq(f.arr, f.len + 1, Len(f.arr))]
    /\ UNCHANGED <<call, fn, withPodMetrics, includeSystem, namespace, spawned, taskPc,
                   taskErr, slot, nodeMetricsAvail, podMetricsAvail, gerr, gctxDone,
                   err, resolved, listed, writers, failOrder, readEarly>>

DeploymentsHeaders ==
    <<"#", "Kind", "Namespace", "Workload", "Pods", "CPU Req", "CPU Actual", "Over-req",
      "CPU Verdict", "Mem Req", "Mem Actual", "Mem Verdict">>

\* Mutant: a workload using no CPU gets the key of a zero ratio.
workloadSortFactorZeroLow(w) ==
    IF w.CPURequest = 0 THEN Num(-1, 1)
    ELSE IF ~w.MetricsAvailable THEN Num(-1, 2)
    ELSE IF w.CPUActual = 0 THEN Num(0, 1)
    ELSE Num(w.CPURequest, w.CPUActual)

\* workloadSortFactor returns the key for sorting workloads by CPU over-request
\* severity: -1, -0.5, 1e15 or request/actual.
workloadSortFactor(w) ==
    IF w.CPURequest = 0 THEN Num(-1, 1)
    ELSE IF ~w.MetricsAvailable THEN Num(-1, 2)
    ELSE IF w.CPUActual = 0 THEN [n |-> 1, d |-> 1, e |-> 15]
    ELSE Num(w.CPURequest, w.CPUActual)

BySortFactor(a, b) == Greater(workloadSortFactor(a), workloadSortFactor(b))

\* One row of RenderDeployments.
WorkloadRow(res, i, w) ==
    LET metricsAvail == res.MetricsAvailable /\ w.MetricsAvailable
    IN Row(DeploymentsHeaders,
           << cv(ToString(i)),
              cv(w.Kind),
              cv(w.Namespace),
              cv(w.Name),
              cv(ToString(w.PodCount)),
              cv(FormatCPU(w.CPURequest)),
              IF metricsAvail THEN cv(FormatCPU(w.CPUActual)) ELSE naCell,
              cvColored(FormatFactor(w.CPURequest, w.CPUActual),
                        FactorColors(w.CPURequest, w.CPUActual)),
              verdictFromRatio(w.CPURequest, w.CPUActual, metricsAvail),
              cv(FormatMem(w.MemRequest)),
              IF metricsAvail THEN cv(FormatMem(w.MemActual)) ELSE naCell,
              verdictFromRatio(w.MemRequest, w.MemActual, metricsAvail) >>)

\* RenderDeployments up to the sort: the workloads of a copy of
\* result.Workloads that passed the filter.
FilteredWorkloads(res, minFactor) ==
    IF minFactor = 0 THEN res.Workloads
    ELSE SelectSeq(res.Workloads,
                   LAMBDA w : meetsFactorFilter(w.CPURequest, w.CPUActual,
                                                res.MetricsAvailable /\ w.MetricsAvailable,
                                                minFactor))

\* RenderDeployments renders the workloads table: copy, filter, sort by
\* severity, take the top limit.
RenderDeployments(limit, minFactor) ==
    /\ fn = "FetchWorkloads"
    /\ mainPc = "returned"
    /\ err = NilErr
    /\ mainPc' = "rendered"
    /\ renderArgs' = <<limit, minFactor>>
    /\ \E t \in SortSlice(FilteredWorkloads(result, minFactor), BySortFactor) :
          LET shown == Limited(t, limit)
          IN rows' = <<Table("Deployments",
                             [i \in DOMAIN shown |-> WorkloadRow(result, i, shown[i])])>>
    /\ UNCHANGED <<call, fn, withPodMetrics, includeSystem, namespace, spawned, taskPc,
                   taskErr, slot, nodeMetricsAvail, podMetricsAvail, gerr, gctxDone,
                   result, err, resolved, listed, writers, failOrder, readEarly>>

\* The --limit and --min-factor values tried.
Limits == {0, 1}

MinFactors == {0, 2, -1}

\* RenderNodes takes every value of its two flags: the nodes command passes
\* --pod-overview to both FetchNodes and RenderNodes, and the exported function
\* accepts any podOverview for any result.
Next ==
    \/ Go
    \/ \E t \in TaskNames : ListTask(t)
    \/ Wait
    \/ Aggregate
    \/ \E sys, overview \in BOOLEAN : RenderNodes(sys, overview)
    \/ \E sys \in BOOLEAN, limit \in Limits, minFactor \in MinFactors :
          RenderPods(sys \/ namespace # "", limit, minFactor)
    \/ \E limit \in Limits, minFactor \in MinFactors : RenderDeployments(limit, minFactor)

Spec == Init /\ [][Next]_vars

\* ------------------------------------------- the functions on their own

\* Percentages tried as arguments: 0, 0.5, 1, ... MaxHalfPct/2.
MaxHalfPct == 220

Pcts == { [n |-> n, d |-> 2, e |-> 0] : n \in 0..MaxHalfPct }

\* Millicores tried as arguments.
MaxMillis == 60

Millis == 0..MaxMillis

Call(op, args) == [op |-> op, args |-> args, done |-> FALSE, out |-> ""]

\* The calls tried, one per behaviour.
ResourceVerdictCalls == { Call("ResourceVerdict", <<r, a>>) : r, a \in Pcts }

FormatFactorCalls == { Call("FormatFactor", <<req, actual>>) : req, actual \in Millis }

FactorColorsCalls == { Call("FactorColors", <<req, actual>>) : req, actual \in Millis }

\* --min-factor values tried.
Thresholds == {-5, -1, 0, 1, 2, 10}

meetsFactorFilterCalls ==
    { Call("meetsFactorFilter", <<req, actual, metricsAvail, threshold>>) :
        req \in Millis, actual \in Millis, metricsAvail \in BOOLEAN, threshold \in Thresholds }

verdictFromRatioCalls ==
    { Call("verdictFromRatio", <<req, actual, metricsAvail>>) :
        req \in Millis, actual \in Millis, metricsAvail \in BOOLEAN }

\* No command runs while a function is called on its own.
NoCommand ==
    /\ fn = "FetchNodes"
    /\ withPodMetrics = FALSE
    /\ includeSystem = FALSE
    /\ namespace = ""
    /\ mainPc = "none"
    /\ spawned = 0
    /\ taskPc = [t \in TaskNames |-> "none"]
    /\ taskErr = [t \in TaskNames |-> "ok"]
    /\ slot = [t \in TaskNames |-> NilList]
    /\ nodeMetricsAvail = TRUE
    /\ podMetricsAvail = TRUE
    /\ gerr = NilErr
    /\ gctxDone = FALSE
    /\ result = NilResult
    /\ err = NilErr
    /\ resolved = <<>>
    /\ rows = <<>>
    /\ renderArgs = <<>>
    /\ listed = [t \in TaskNames |-> NilList]
    /\ writers = [t \in TaskNames |-> {}]
    /\ failOrder = <<>>
    /\ readEarly = {}

commandVars ==
    <<fn, withPodMetrics, includeSystem, namespace, mainPc, spawned, taskPc, taskErr,
      slot, nodeMetricsAvail, podMetricsAvail, gerr, gctxDone, result, err, resolved,
      rows, renderArgs, listed, writers, failOrder, readEarly>>

CallsInit ==
    /\ NoCommand
    /\ \/ call \in ResourceVerdictCalls
       \/ call \in FormatFactorCalls
       \/ call \in FactorColorsCalls
       \/ call \in meetsFactorFilterCalls
       \/ call \in verdictFromRatioCalls

Returns(op, out) ==
    /\ call.op = op
    /\ ~call.done
    /\ call' = [call EXCEPT !.done = TRUE, !.out = out]
    /\ UNCHANGED commandVars

CallResourceVerdict ==
    Returns("ResourceVerdict", ResourceVerdict(call.args[1], call.args[2]))

CallFormatFactor ==
    Returns("FormatFactor", FormatFactor(call.args[1], call.args[2]))

CallFactorColors ==
    Returns("FactorColors", FactorColors(call.args[1], call.args[2]))

CallMeetsFactorFilter ==
    Returns("meetsFactorFilter",
            meetsFactorFilter(call.args[1], call.args[2], call.args[3], call.args[4]))

CallVerdictFromRatio ==
    Returns("verdictFromRatio",
            verdictFromRatio(call.args[1], call.args[2], call.args[3]))

CallsNext ==
    \/ CallResourceVerdict
    \/ CallFormatFactor
    \/ CallFactorColors
    \/ CallMeetsFactorFilter
    \/ CallVerdictFromRatio

CallsSpec == CallsInit /\ [][CallsNext]_vars

\* ------------------------------------------------ the aggregation, again

\* The aggregation of the fetch run a second time over the variables the
\* first run left: the listings, the availability flags and the arguments.
AggregateAgain ==
    /\ mainPc = "returned"
    /\ err = NilErr
    /\ ~call.done
    /\ \E again \in (CASE fn = "FetchNodes" ->
                          {AggregateNodes(slot, nodeMetricsAvail, podMetricsAvail,
                                          withPodMetrics)}
                     [] fn = "FetchPods" -> {AggregatePods(slot, podMetricsAvail)}
                     [] fn = "FetchWorkloads" ->
                          AggregateWorkloads(slot, podMetricsAvail, includeSystem)) :
          call' = [op |-> "aggregate", args |-> <<>>, done |-> TRUE, out |-> again]
    /\ UNCHANGED commandVars

AgainNext ==
    \/ Go
    \/ \E t \in TaskNames : ListTask(t)
    \/ Wait
    \/ Aggregate
    \/ AggregateAgain

AgainSpec == Init /\ [][AgainNext]_vars

\* ------------------------------------------------------- the fetch alone

\* A fetch up to its return, nothing rendered.
FetchNext ==
    \/ Go
    \/ \E t \in TaskNames : ListTask(t)
    \/ Wait
    \/ Aggregate

\* The goroutine of the fetch and those of its tasks keep running, and every
\* listing call returns.
FetchFairness ==
    /\ WF_vars(Go)
    /\ \A t \in TaskNames : WF_vars(ListTask(t))
    /\ WF_vars(Wait)
    /\ WF_vars(Aggregate)

FetchSpec == Init /\ [][FetchNext]_vars /\ FetchFairness

\* ------------------------------------------------------------------ claims

AllTasks == Range(Tasks(fn, withPodMetrics))

Joined == mainPc \in {"joined", "returned", "rendered"}

Returned == mainPc \in {"returned", "rendered"}

Failed(t) == t \in Started /\ taskPc[t] = "done" /\ taskErr[t] # "ok"

CoreFailed == \E t \in TaskNames : Core(t) /\ Failed(t)

\* C1: once a core listing (nodes, pods, replica sets) of the fetch has failed,
\* the fetch never gets past the join: it returns its error with a nil result,
\* whatever the metrics listings did and whatever the order of the tasks, and
\* nothing is rendered.
C1_CoreFailureAborts ==
    (CoreFailed /\ Joined) =>
        /\ mainPc = "returned"
        /\ err # NilErr
        /\ result = NilResult
        /\ rows = <<>>

\* A workloads fetch returned after its pod listing succeeded and both its
\* replica-set listing and its pod-metrics listing failed.
C1_Witness ==
    /\ fn = "FetchWorkloads"
    /\ mainPc = "returned"
    /\ taskErr["pods"] = "ok"
    /\ Failed("replicaSets")
    /\ Failed("podMetrics")

\* C2: a fetch whose core listings all succeeded returns no error and a result
\* with a summary for every listed node (FetchNodes) or running pod (FetchPods),
\* and the availability flag of a metrics axis whose listing failed is false in
\* that result.
C2_MetricsFailureAbsorbed ==
    (Returned /\ ~CoreFailed) =>
        /\ err = NilErr
        /\ result # NilResult
        /\ fn = "FetchNodes" =>
              /\ Len(result.Nodes) = Len(slot["nodes"].Items)
              /\ Failed("nodeMetrics") => ~result.NodeMetricsAvailable
              /\ Failed("podMetrics") => ~result.PodMetricsAvailable
        /\ fn = "FetchPods" =>
              /\ Len(result.Pods) =
                    Len(SelectSeq(slot["pods"].Items, LAMBDA p : p.Phase = "Running"))
              /\ Failed("podMetrics") => ~result.MetricsAvailable
        /\ fn = "FetchWorkloads" =>
              (Failed("podMetrics") => ~result.MetricsAvailable)

\* A nodes fetch with pod metrics returned a node although both metrics
\* listings failed.
C2_Witness ==
    /\ fn = "FetchNodes"
    /\ mainPc = "returned"
    /\ Failed("nodeMetrics")
    /\ Failed("podMetrics")
    /\ err = NilErr
    /\ Len(result.Nodes) = 2

\* C3: as soon as a core listing has failed the shared context is cancelled;
\* the fetch returns the error of the core task that failed first, and that
\* task did not fail with the context's error; before the join returns, the
\* context is cancelled only if a core listing has failed, so no listing fails
\* with the context's error because of a metrics failure.
C3_FirstCoreFailureCancels ==
    /\ CoreFailed => gctxDone
    /\ (Returned /\ CoreFailed) =>
          /\ failOrder # <<>>
          /\ Core(Head(failOrder))
          /\ taskErr[Head(failOrder)] = "api"
          /\ err = ErrOf(Head(failOrder), "api")
    /\ (gctxDone /\ ~Joined) => CoreFailed
    /\ \A t \in TaskNames :
          taskErr[t] = "ctx" => \E u \in TaskNames \ {t} : Core(u) /\ Failed(u)

\* A nodes fetch returned the error of the pod listing, which failed first; the
\* node listing then failed with the context's error, and the node metrics
\* failed too.
C3_Witness ==
    /\ fn = "FetchNodes"
    /\ mainPc = "returned"
    /\ failOrder = <<"pods", "nodes">>
    /\ taskErr["nodes"] = "ctx"
    /\ Failed("nodeMetrics")
    /\ err = "failed to list pods: api"

\* C4: past the join every listing task of the fetch has completed, the
\* metrics tasks included, and the aggregation has read no variable whose task
\* was still running.
C4_JoinBarrier ==
    /\ Joined => \A t \in AllTasks : taskPc[t] = "done"
    /\ readEarly = {}

\* A nodes fetch with pod metrics aggregated after its pod-metrics listing
\* failed.
C4_Witness ==
    /\ fn = "FetchNodes"
    /\ withPodMetrics
    /\ mainPc = "returned"
    /\ err = NilErr
    /\ Failed("podMetrics")

\* C5: every result variable is written by its own task only and read only
\* after the join; past the join each holds what its task's listing returned
\* and each availability flag tells whether its task's listing succeeded, so
\* a nodes or pods fetch returns the aggregation of the listing outcomes
\* whatever the order the tasks ran in.
C5_NoDataRace ==
    /\ \A v \in TaskNames : writers[v] \subseteq {v}
    /\ readEarly = {}
    /\ Joined =>
          /\ \A t \in TaskNames :
                slot[t] = (IF t \in AllTasks THEN listed[t] ELSE NilList)
          /\ nodeMetricsAvail = ~Failed("nodeMetrics")
          /\ podMetricsAvail = ~Failed("podMetrics")
    /\ (mainPc = "returned" /\ err = NilErr /\ fn = "FetchNodes") =>
          result = AggregateNodes(listed, ~Failed("nodeMetrics"), ~Failed("podMetrics"),
                                  withPodMetrics)
    /\ (mainPc = "returned" /\ err = NilErr /\ fn = "FetchPods") =>
          result = AggregatePods(listed, ~Failed("podMetrics"))

\* A nodes fetch returned a result after each of its four tasks wrote its own
\* variable.
C5_Witness ==
    /\ fn = "FetchNodes"
    /\ mainPc = "returned"
    /\ err = NilErr
    /\ \A v \in {"nodes", "pods", "nodeMetrics", "podMetrics"} : writers[v] = {v}
    /\ Len(slot["pods"].Items) = 2


Unavailable == {"N/A", "no req"}

\* The rows of the tables k of the last rendering.
RenderedRows(ks) == UNION { Range(rows[k].rows) : k \in ks \cap DOMAIN rows }

\* C6: in what a command rendered after a metrics listing failed, every row
\* fed by that listing shows unavailable markers: node rows show "N/A" for
\* actual usage and verdicts when the node metrics failed; pod-overview, pod
\* and workload rows show "N/A" for actual usage and "N/A" or "no req" for
\* the factor and the verdicts when the pod metrics failed.
C6_UnavailableMarkers ==
    mainPc = "rendered" =>
        /\ (fn = "FetchNodes" /\ Failed("nodeMetrics")) =>
              \A r \in RenderedRows({1}) :
                 \A h \in {"CPU Actual", "CPU Verdict", "Mem Actual", "Mem Verdict"} :
                    r[h].text = "N/A"
        /\ (fn = "FetchNodes" /\ Failed("podMetrics")) =>
              \A r \in RenderedRows(2..Len(rows)) :
                 /\ r["CPU Actual"].text = "N/A"
                 /\ r["Mem Actual"].text = "N/A"
                 /\ r["Over-req"].text \in Unavailable
        /\ (fn \in {"FetchPods", "FetchWorkloads"} /\ Failed("podMetrics")) =>
              \A r \in RenderedRows({1}) :
                 /\ r["CPU Actual"].text = "N/A"
                 /\ r["Mem Actual"].text = "N/A"
                 /\ \A h \in {"Over-req", "CPU Verdict", "Mem Verdict"} :
                       r[h].text \in Unavailable

\* The pods table rendered after the pod metrics failed holds a pod with a
\* request, shown "N/A", and one without, shown "no req".
C6_Witness ==
    /\ fn = "FetchPods"
    /\ mainPc = "rendered"
    /\ Failed("podMetrics")
    /\ \E r1, r2 \in RenderedRows({1}) :
          /\ r1["CPU Req"].text = "100m" /\ r1["Over-req"].text = "N/A"
          /\ r1["CPU Verdict"].text = "N/A"
          /\ r2["CPU Req"].text = "0" /\ r2["Over-req"].text = "no req"
          /\ r2["CPU Verdict"].text = "no req"

WorkloadKey(w) == [Kind |-> w.Kind, Namespace |-> w.Namespace, Name |-> w.Name]

PodCounts(ws) == SumSeq([i \in DOMAIN ws |-> ws[i].PodCount])

\* C7 as claimed: the PodCount values of the workloads FetchWorkloads returns
\* sum to the number of running pods of the pod listing.
C7_EveryRunningPodCounted ==
    (fn = "FetchWorkloads" /\ Returned /\ err = NilErr) =>
        PodCounts(result.Workloads) =
            Len(SelectSeq(slot["pods"].Items, LAMBDA p : p.Phase = "Running"))

\* C7, amended: the pods FetchWorkloads counts are the running pods of the
\* listing, less those of the system namespaces unless includeSystem is set.
\* Each of them is resolved once and counted in exactly one workload: the
\* PodCount values sum to their number, and each workload counts the pods
\* resolved to its key, at least one.
C7_FilteredRunningPodsCounted ==
    (fn = "FetchWorkloads" /\ Returned /\ err = NilErr) =>
        LET pods == slot["pods"].Items
            counted == SelectSeq(pods, LAMBDA p :
                          /\ p.Phase = "Running"
                          /\ (includeSystem \/ p.Namespace \notin SystemNamespaces))
            ws == result.Workloads
        IN /\ PodCounts(ws) = Len(counted)
           /\ [k \in DOMAIN resolved |-> resolved[k].pod] = counted
           /\ \A k \in DOMAIN resolved :
                 Cardinality({i \in DOMAIN ws : WorkloadKey(ws[i]) = resolved[k].owner}) = 1
           /\ \A i \in DOMAIN ws :
                 /\ ws[i].PodCount >= 1
                 /\ ws[i].PodCount =
                       Cardinality({k \in DOMAIN resolved :
                                       resolved[k].owner = WorkloadKey(ws[i])})

\* Two running pods of one replica set are counted in the one workload of
\* its deployment.
C7_Witness ==
    /\ fn = "FetchWorkloads"
    /\ mainPc = "returned"
    /\ err = NilErr
    /\ Len(result.Workloads) = 1
    /\ result.Workloads[1].Kind = "Deployment"
    /\ result.Workloads[1].PodCount = 2

OnlyRunning(s) ==
    [s EXCEPT !["pods"] = List(SelectSeq(s["pods"].Items, LAMBDA p : p.Phase = "Running"))]

IsOfRunningPod(pi) ==
    \E p \in Range(slot["pods"].Items) :
       p.Namespace = pi.Namespace /\ p.Name = pi.Name /\ p.Phase = "Running"

\* C8: what a fetch returns is what it would return had the pod listing held
\* its running pods only, and every pod summary in it is that of a running
\* pod: a pod of another phase is in no node's pods or totals, not in the pod
\* list and in no workload's count or sums.
C8_NonRunningExcluded ==
    (mainPc = "returned" /\ err = NilErr) =>
        /\ fn = "FetchNodes" =>
              /\ result = AggregateNodes(OnlyRunning(slot), nodeMetricsAvail,
                                         podMetricsAvail, withPodMetrics)
              /\ \A i \in DOMAIN result.Nodes :
                    \A pi \in Range(result.Nodes[i].Pods) : IsOfRunningPod(pi)
        /\ fn = "FetchPods" =>
              /\ result = AggregatePods(OnlyRunning(slot), podMetricsAvail)
              /\ \A pi \in Range(result.Pods) : IsOfRunningPod(pi)
        /\ fn = "FetchWorkloads" =>
              /\ result \in AggregateWorkloads(OnlyRunning(slot), podMetricsAvail,
                                               includeSystem)
              /\ \A k \in DOMAIN resolved : resolved[k].pod.Phase = "Running"

\* A nodes fetch listed a pending and a running pod on node n1 and returned
\* the node with the running pod alone.
C8_Witness ==
    /\ fn = "FetchNodes"
    /\ mainPc = "returned"
    /\ err = NilErr
    /\ \E p, q \in Range(slot["pods"].Items) :
          /\ p.Phase = "Pending" /\ p.NodeName = "n1"
          /\ q.Phase = "Running" /\ q.NodeName = "n1"
    /\ Len(result.Nodes[1].Pods) = 1
    /\ result.Nodes[1].RequestedCPU = 100

\* C9: after FetchNodes, and after rendering with any include-system setting,
\* with or without the pod overview, every node's RequestedCPU and
\* RequestedMem are the sums of the container requests of every running pod
\* of the listing scheduled on that node, system namespaces included.
C9_NodeTotalsUnconditional ==
    (fn = "FetchNodes" /\ Returned /\ err = NilErr) =>
        \A i \in DOMAIN result.Nodes :
           LET on == SelectSeq(slot["pods"].Items, LAMBDA p :
                        p.Phase = "Running" /\ p.NodeName = result.Nodes[i].Name)
           IN /\ result.Nodes[i].RequestedCPU =
                    SumSeq([k \in DOMAIN on |->
                              SumSeq([c \in DOMAIN on[k].Containers |->
                                        on[k].Containers[c].cpuReq])])
              /\ result.Nodes[i].RequestedMem =
                    SumSeq([k \in DOMAIN on |->
                              SumSeq([c \in DOMAIN on[k].Containers |->
                                        on[k].Containers[c].memReq])])

\* Node n1 runs a pod of default (100m) and one of kube-system (200m); the
\* pod overview rendered without the system namespaces shows the first alone
\* and the node's total is 300m.
C9_Witness ==
    /\ fn = "FetchNodes"
    /\ withPodMetrics
    /\ mainPc = "rendered"
    /\ result.Nodes[1].RequestedCPU = 300
    /\ Len(rows) = 2
    /\ Len(rows[2].rows) = 1
    /\ rows[2].rows[1]["Namespace"].text = "default"
    /\ rows[1].rows[1]["CPU Requested"].text = "30% (300m)"

RecognizedKinds == {"ReplicaSet", "StatefulSet", "DaemonSet", "Job"}

\* The replica sets of the listing named name in namespace ns that a
\* Deployment owns.
DeploymentOwned(ns, name) ==
    { rs \in Range(slot["replicaSets"].Items) :
        /\ rs.Namespace = ns
        /\ rs.Name = name
        /\ \E i \in DOMAIN rs.OwnerReferences : rs.OwnerReferences[i].Kind = "Deployment" }

\* The name of the first Deployment among the owners of rs.
DeploymentOf(rs) ==
    LET refs == rs.OwnerReferences
        i == CHOOSE i \in DOMAIN refs :
                /\ refs[i].Kind = "Deployment"
                /\ \A j \in 1..(i - 1) : refs[j].Kind # "Deployment"
    IN refs[i].Name

\* C10: every call of resolveWorkloadOwner resolves the pod, in the pod's
\* namespace, from its first owner of a recognized kind: to the Deployment
\* owning the replica set when that owner is a ReplicaSet of the listing that
\* a Deployment owns, to the ReplicaSet itself when no Deployment owns it, to
\* the StatefulSet, DaemonSet or Job otherwise; a pod with no recognized owner
\* resolves to {Pod, namespace, pod name}. The owner is never further than the
\* replica set's Deployment.
C10_ResolveWorkloadOwner ==
    \A k \in DOMAIN resolved :
       LET pod == resolved[k].pod
           owner == resolved[k].owner
           refs == pod.OwnerReferences
           rec == {i \in DOMAIN refs : refs[i].Kind \in RecognizedKinds}
       IN /\ owner.Namespace = pod.Namespace
          /\ rec = {} => owner = [Kind |-> "Pod", Namespace |-> pod.Namespace,
                                  Name |-> pod.Name]
          /\ rec # {} =>
                LET r == refs[CHOOSE i \in rec : \A j \in rec : i <= j]
                    deps == DeploymentOwned(pod.Namespace, r.Name)
                IN /\ (r.Kind = "ReplicaSet" /\ deps # {}) =>
                         /\ owner.Kind = "Deployment"
                         /\ \E rs \in deps : owner.Name = DeploymentOf(rs)
                   /\ (r.Kind = "ReplicaSet" /\ deps = {}) =>
                         (owner.Kind = "ReplicaSet" /\ owner.Name = r.Name)
                   /\ r.Kind # "ReplicaSet" =>
                         (owner.Kind = r.Kind /\ owner.Name = r.Name)

\* One fetch resolved a pod of replica set rs1 to Deployment dep1 and a pod
\* of replica set rs2, which no Deployment owns, to the ReplicaSet.
C10_Witness ==
    /\ fn = "FetchWorkloads"
    /\ Len(resolved) = 2
    /\ resolved[1].owner = [Kind |-> "Deployment", Namespace |-> "default", Name |-> "dep1"]
    /\ resolved[2].owner = [Kind |-> "ReplicaSet", Namespace |-> "default", Name |-> "rs2"]


\* The first owner reference of pod whose kind is recognized, as a list of
\* one; the empty list when the pod has none.
FirstRecognized(pod) ==
    LET refs == pod.OwnerReferences
        rec == {i \in DOMAIN refs : refs[i].Kind \in RecognizedKinds}
    IN IF rec = {} THEN <<>>
       ELSE <<refs[CHOOSE i \in rec : \A j \in rec : i <= j]>>

\* C11: every call of resolveWorkloadOwner returns what it returns for the
\* same pod owned by its first reference of a recognized kind alone: the
\* unrecognized references before it and all references after it have no
\* effect, and the owner carries that reference's name unless it is the
\* Deployment of that replica set.
C11_FirstRecognizedOwner ==
    \A k \in DOMAIN resolved :
       LET pod == resolved[k].pod
           owner == resolved[k].owner
           first == FirstRecognized(pod)
       IN /\ owner = resolveWorkloadOwner([pod EXCEPT !.OwnerReferences = first],
                                          RsToDeployment(slot["replicaSets"]))
          /\ first # <<>> =>
                \/ owner.Kind = first[1].Kind /\ owner.Name = first[1].Name
                \/ owner.Kind = "Deployment" /\ first[1].Kind = "ReplicaSet"

\* One fetch resolved a pod owned by <<Node, StatefulSet, Job>> to the
\* StatefulSet and a pod owned by <<Job, ReplicaSet>> to the Job.
C11_Witness ==
    /\ fn = "FetchWorkloads"
    /\ \E k \in DOMAIN resolved :
          /\ Len(resolved[k].pod.OwnerReferences) = 3
          /\ resolved[k].pod.OwnerReferences[1].Kind = "Node"
          /\ resolved[k].owner = [Kind |-> "StatefulSet", Namespace |-> "default",
                                  Name |-> "ss1"]
    /\ \E k \in DOMAIN resolved :
          /\ Len(resolved[k].pod.OwnerReferences) = 2
          /\ resolved[k].pod.OwnerReferences[2].Kind = "ReplicaSet"
          /\ resolved[k].owner = [Kind |-> "Job", Namespace |-> "kube-system",
                                  Name |-> "j1"]


\* The containers' usage of pod in the pod-metrics snapshot: those of the last
\* item with the pod's namespace and name, none when there is no such item.
SnapshotUsage(pod) ==
    LET items == slot["podMetrics"].Items
        mine == {i \in DOMAIN items :
                   items[i].Namespace = pod.Namespace /\ items[i].Name = pod.Name}
    IN IF mine = {} THEN <<>>
       ELSE items[CHOOSE i \in mine : \A j \in mine : j <= i].Containers

\* The pods resolved to workload w, in listing order.
PodsOf(w) ==
    LET calls == SelectSeq(resolved, LAMBDA c : c.owner = WorkloadKey(w))
    IN [k \in DOMAIN calls |-> calls[k].pod]

\* C12: in the result of FetchWorkloads the result's MetricsAvailable tells
\* whether the pod-metrics listing succeeded and every workload's
\* MetricsAvailable equals it, whether or not the workload's pods are in the
\* snapshot. With metrics available a workload's CPUActual and MemActual are
\* the sums over the snapshot's containers of its pods; without, they are 0,
\* and the loop body adds nothing to them whatever the snapshot holds.
C12_WorkloadMetricsUniform ==
    (fn = "FetchWorkloads" /\ Returned /\ err = NilErr) =>
        /\ result.MetricsAvailable = ~Failed("podMetrics")
        /\ \A i \in DOMAIN result.Workloads :
              LET w == result.Workloads[i]
                  ps == PodsOf(w)
                  usage == [k \in DOMAIN ps |-> SnapshotUsage(ps[k])]
              IN /\ w.MetricsAvailable = result.MetricsAvailable
                 /\ w.CPUActual =
                       (IF result.MetricsAvailable
                        THEN SumSeq([k \in DOMAIN ps |->
                                SumSeq([c \in DOMAIN usage[k] |-> usage[k][c].CPU])])
                        ELSE 0)
                 /\ w.MemActual =
                       (IF result.MetricsAvailable
                        THEN SumSeq([k \in DOMAIN ps |->
                                SumSeq([c \in DOMAIN usage[k] |-> usage[k][c].Mem])])
                        ELSE 0)
        /\ \A k \in DOMAIN resolved : \A l \in PodMetricsListings :
              LET c == resolved[k]
                  key == c.owner.Namespace \o "/" \o c.owner.Kind \o "/" \o c.owner.Name
                  w == AddPod(<<>>, c.pod, c.owner, MapOf(List(l), PodKey), FALSE)[key]
              IN w.CPUActual = 0 /\ w.MemActual = 0 /\ ~w.MetricsAvailable

\* Pod metrics were listed; one workload holds a pod found in the snapshot
\* (250m over two containers) and the other a pod that is not, and both are
\* flagged available.
C12_Witness ==
    /\ fn = "FetchWorkloads"
    /\ mainPc = "returned"
    /\ err = NilErr
    /\ result.MetricsAvailable
    /\ \E i, j \in DOMAIN result.Workloads :
          /\ result.Workloads[i].CPUActual = 250
          /\ result.Workloads[i].MemActual = 32
          /\ result.Workloads[i].MetricsAvailable
          /\ SnapshotUsage(PodsOf(result.Workloads[j])[1]) = <<>>
          /\ result.Workloads[j].CPUActual = 0
          /\ result.Workloads[j].MetricsAvailable


Called(op) == call.op = op /\ call.done

\* Twice a percentage of Pcts, a whole number.
Halves(pct) == (2 * pct.n) \div pct.d

\* C13: ResourceVerdict(requestedPct, actualPct), with diff = requestedPct -
\* actualPct, returns MassivelyOverRequested iff diff > 50, OverRequested iff
\* 20 < diff <= 50, Bursting iff actualPct > requestedPct and OK iff
\* 0 <= diff <= 20; diff = 50 gives OverRequested, diff = 20 gives OK and equal
\* arguments give OK.
C13_ResourceVerdict ==
    Called("ResourceVerdict") =>
        LET r == Halves(call.args[1])
            a == Halves(call.args[2])
            diff == r - a
            v == call.out
        IN /\ v \in Verdicts
           /\ v = VerdictMassivelyOverRequested <=> diff > 100
           /\ v = VerdictOverRequested <=> (40 < diff /\ diff <= 100)
           /\ v = VerdictBursting <=> a > r
           /\ v = VerdictOK <=> (0 <= diff /\ diff <= 40)
           /\ diff = 100 => v.Label = "Over-requested"
           /\ diff = 40 => v.Label = "OK"
           /\ r = a => v.Label = "OK"

\* ResourceVerdict(100, 50), diff = 50, returned OverRequested.
C13_Witness ==
    /\ Called("ResourceVerdict")
    /\ Halves(call.args[1]) = 200
    /\ Halves(call.args[2]) = 100
    /\ call.out = VerdictOverRequested


\* C14: FormatFactor(req, actual) returns "no req" whenever req = 0, "N/A"
\* when req > 0 and actual = 0, and otherwise the whole quotient q of req by
\* actual (q * actual <= req < (q + 1) * actual) followed by "x", which is
\* "0x" when actual > req > 0. No call divides by zero: every call returns.
C14_FormatFactor ==
    Called("FormatFactor") =>
        LET req == call.args[1]
            actual == call.args[2]
        IN /\ req = 0 => call.out = "no req"
           /\ (req > 0 /\ actual = 0) => call.out = "N/A"
           /\ (req > 0 /\ actual > 0) =>
                 \E q \in 0..req :
                    /\ q * actual <= req
                    /\ req < (q + 1) * actual
                    /\ call.out = ToString(q) \o "x"
           /\ (actual > req /\ req > 0) => call.out = "0x"

\* FormatFactor(30, 45) returned "0x".
C14_Witness ==
    /\ Called("FormatFactor")
    /\ call.args = <<30, 45>>
    /\ call.out = "0x"


\* The whole quotient of req >= 0 by actual > 0.
WholeQuotient(req, actual) ==
    CHOOSE q \in 0..req : q * actual <= req /\ req < (q + 1) * actual

Dimmed == <<"Faint">>

\* The severity tiers' styles, lowest first.
TierStyles == << <<"FgGreen">>, <<"FgYellow">>, <<"FgRed">>, <<"Bold", "FgRed">> >>

TierOf(colors) == CHOOSE i \in DOMAIN TierStyles : TierStyles[i] = colors

\* C15: FactorColors(req, actual) returns the dimmed style when req = 0 or
\* actual = 0; otherwise, with factor the whole quotient of req by actual, the
\* highest tier iff factor >= 50, high iff 10 <= factor < 50, medium iff
\* 3 <= factor < 10 and low iff factor < 3. The tier does not decrease with
\* the factor: no arguments of a smaller or equal factor get a higher tier.
C15_FactorColors ==
    Called("FactorColors") =>
        LET req == call.args[1]
            actual == call.args[2]
        IN /\ (req = 0 \/ actual = 0) => call.out = Dimmed
           /\ (req > 0 /\ actual > 0) =>
                 LET factor == WholeQuotient(req, actual)
                 IN /\ call.out \in Range(TierStyles)
                    /\ call.out = TierStyles[4] <=> factor >= 50
                    /\ call.out = TierStyles[3] <=> (10 <= factor /\ factor < 50)
                    /\ call.out = TierStyles[2] <=> (3 <= factor /\ factor < 10)
                    /\ call.out = TierStyles[1] <=> factor < 3
                    /\ \A req2 \in 1..MaxMillis, actual2 \in 1..3 :
                          WholeQuotient(req2, actual2) <= factor =>
                             TierOf(FactorColors(req2, actual2)) <= TierOf(call.out)

\* FactorColors(50, 1), factor 50, returned the highest tier.
C15_Witness ==
    /\ Called("FactorColors")
    /\ call.args = <<50, 1>>
    /\ call.out = <<"Bold", "FgRed">>


\* C16: meetsFactorFilter(req, actual, metricsAvail, threshold) returns true
\* for threshold 0; for another threshold it returns false when req = 0 or
\* metricsAvail is false, and otherwise: for a positive threshold, true iff
\* actual = 0 or the whole quotient of req by actual is at least the
\* threshold; for a negative threshold, true iff actual > req, the same for
\* every negative threshold.
C16_MeetsFactorFilter ==
    Called("meetsFactorFilter") =>
        LET req == call.args[1]
            actual == call.args[2]
            metricsAvail == call.args[3]
            threshold == call.args[4]
        IN /\ call.out \in BOOLEAN
           /\ threshold = 0 => call.out
           /\ (threshold # 0 /\ (req = 0 \/ ~metricsAvail)) => ~call.out
           /\ (threshold > 0 /\ req > 0 /\ metricsAvail) =>
                 (call.out <=> (actual = 0 \/ WholeQuotient(req, actual) >= threshold))
           /\ (threshold < 0 /\ req > 0 /\ metricsAvail) =>
                 (call.out <=> actual > req)
           /\ threshold < 0 =>
                 \A other \in {t \in Thresholds : t < 0} :
                    meetsFactorFilter(req, actual, metricsAvail, other) = call.out

\* meetsFactorFilter(20, 0, true, 10) returned true: a request with no usage
\* passes a positive threshold.
C16_Witness ==
    /\ Called("meetsFactorFilter")
    /\ call.args = <<20, 0, TRUE, 10>>
    /\ call.out = TRUE


\* The severity class of a workload: 0 no CPU request, 1 a request without
\* metrics, 3 a request with metrics and no CPU used, 2 the others.
SeverityClass(w) ==
    IF w.CPURequest = 0 THEN 0
    ELSE IF ~w.MetricsAvailable THEN 1
    ELSE IF w.CPUActual = 0 THEN 3
    ELSE 2

\* Workload a is strictly worse than b: of a higher class, or both of class 2
\* and a's request/actual the greater.
Worse(a, b) ==
    \/ SeverityClass(a) > SeverityClass(b)
    \/ /\ SeverityClass(a) = 2
       /\ SeverityClass(b) = 2
       /\ a.CPURequest * b.CPUActual > b.CPURequest * a.CPUActual

\* The workload of the result a row of the deployments table shows.
WorkloadOfRow(r) ==
    CHOOSE w \in Range(result.Workloads) :
       /\ w.Kind = r["Kind"].text
       /\ w.Namespace = r["Namespace"].text
       /\ w.Name = r["Workload"].text

\* Workloads of every class, whether or not one fetch can return them together.
AnyWorkloads ==
    { [CPURequest |-> req, CPUActual |-> actual, MetricsAvailable |-> avail] :
        req \in {0, 100, 200}, actual \in {0, 50, 250}, avail \in BOOLEAN }

\* C17: the rows RenderDeployments shows are the workloads that pass the
\* factor filter, worst first, cut to the limit: no row's workload is worse
\* than that of a row above it, and no workload cut by the limit is worse
\* than a shown one. Worse means: a request ranks above no request; among
\* those with a request, metrics above no metrics, no CPU used above all
\* others, and the rest by request/actual, descending; against a workload of
\* any class, the sort key of a workload of the result is the greater exactly
\* when it is the worse.
C17_WorkloadRanking ==
    (fn = "FetchWorkloads" /\ mainPc = "rendered") =>
        LET limit == renderArgs[1]
            minFactor == renderArgs[2]
            passing == { w \in Range(result.Workloads) :
                           meetsFactorFilter(w.CPURequest, w.CPUActual,
                                             result.MetricsAvailable /\ w.MetricsAvailable,
                                             minFactor) }
            shown == [i \in DOMAIN rows[1].rows |-> WorkloadOfRow(rows[1].rows[i])]
        IN /\ Range(shown) \subseteq passing
           /\ Len(shown) = (IF limit > 0 /\ Cardinality(passing) > limit
                            THEN limit ELSE Cardinality(passing))
           /\ \A i, j \in DOMAIN shown : i < j => ~Worse(shown[j], shown[i])
           /\ \A w \in passing \ Range(shown) :
                 \A i \in DOMAIN shown : ~Worse(w, shown[i])
           /\ \A a \in Range(result.Workloads), b \in AnyWorkloads :
                 /\ Worse(a, b) <=> Greater(workloadSortFactor(a), workloadSortFactor(b))
                 /\ Worse(b, a) <=> Greater(workloadSortFactor(b), workloadSortFactor(a))

\* Two workloads with a request and metrics were ranked: the one using no CPU
\* first, the one using more than it requests second.
C17_Witness ==
    /\ fn = "FetchWorkloads"
    /\ mainPc = "rendered"
    /\ Len(rows[1].rows) = 2
    /\ rows[1].rows[1]["CPU Actual"].text = "0"
    /\ rows[1].rows[1]["Over-req"].text = "N/A"
    /\ rows[1].rows[2]["Over-req"].text = "0x"


\* The pods FetchPods returned, before any rendering.
FetchedPods == AggregatePods(slot, podMetricsAvail).Pods

\* The fetched pod a row of the pods table shows.
PodOfRow(r) ==
    CHOOSE p \in Range(FetchedPods) :
       p.Namespace = r["Namespace"].text /\ p.Name = r["Pod"].text

\* C18: the rows RenderPods shows are pods that pass the system-namespace and
\* factor filters, each once, numbered from 1, in non-increasing order of CPU
\* request whatever their factors; with limit 0, or no more passing pods than
\* the limit, all of them are shown; otherwise limit rows are shown, and no
\* pod that passed and was cut has a greater CPU request than a shown one.
C18_PodsOrderAndLimit ==
    (fn = "FetchPods" /\ mainPc = "rendered") =>
        LET inclSys == renderArgs[1]
            limit == renderArgs[2]
            minFactor == renderArgs[3]
            passing == { p \in Range(FetchedPods) :
                           /\ inclSys \/ p.Namespace \notin SystemNamespaces
                           /\ meetsFactorFilter(p.CPURequest, p.CPUActual,
                                                podMetricsAvail /\ p.MetricsAvailable,
                                                minFactor) }
            table == rows[1].rows
            shown == [i \in DOMAIN table |-> PodOfRow(table[i])]
        IN /\ Range(shown) \subseteq passing
           /\ Cardinality(Range(shown)) = Len(shown)
           /\ \A i \in DOMAIN table :
                 /\ table[i]["#"].text = ToString(i)
                 /\ table[i]["CPU Req"].text = FormatCPU(shown[i].CPURequest)
           /\ \A i, j \in DOMAIN shown :
                 i < j => shown[i].CPURequest >= shown[j].CPURequest
           /\ (limit = 0 \/ Cardinality(passing) <= limit) => Range(shown) = passing
           /\ (limit > 0 /\ Cardinality(passing) > limit) => Len(shown) = limit
           /\ \A p \in passing \ Range(shown) :
                 \A i \in DOMAIN shown : p.CPURequest <= shown[i].CPURequest

\* Without a limit, a pod requesting 200m with no usage known is listed above
\* a pod requesting 100m with factor 10x.
C18_Witness ==
    /\ fn = "FetchPods"
    /\ mainPc = "rendered"
    /\ renderArgs[2] = 0
    /\ Len(rows[1].rows) = 2
    /\ rows[1].rows[1]["CPU Req"].text = "200m"
    /\ rows[1].rows[1]["Over-req"].text = "N/A"
    /\ rows[1].rows[2]["CPU Req"].text = "100m"
    /\ rows[1].rows[2]["Over-req"].text = "10x"

\* C19: the aggregation of FetchNodes, FetchPods or FetchWorkloads run a second
\* time over what the first run read (the same listings, availability flags
\* and arguments) returns a result identical to the first: the same flags and
\* the same summaries at the same positions of every list.
C19_AggregationIdempotent ==
    Called("aggregate") => call.out = result


\* C20: after RenderNodes, RenderPods or RenderDeployments, with any
\* arguments, the fetch result is what the fetch returned: every node's Pods
\* list, the pod list and the workload list hold the same elements in the
\* same order.
C20_RenderLeavesResult ==
    mainPc = "rendered" =>
        /\ fn = "FetchNodes" =>
              result = AggregateNodes(slot, nodeMetricsAvail, podMetricsAvail,
                                      withPodMetrics)
        /\ fn = "FetchPods" => result = AggregatePods(slot, podMetricsAvail)
        /\ fn = "FetchWorkloads" =>
              result \in AggregateWorkloads(slot, podMetricsAvail, includeSystem)

\* The cell showing verdict v.
VerdictCell(v) == [text |-> v.Label, colors |-> <<v.Color>>]

\* C21: verdictFromRatio(req, actual, metricsAvail) treats the request as 100%:
\* for req = 0 the cell is "no req" whether or not metrics are available; for
\* req > 0 without metrics it is "N/A"; otherwise it is the cell of
\* MassivelyOverRequested iff actual < 50% of req, of OverRequested iff
\* 50% <= actual < 80% of req, of Bursting iff actual > req and of OK iff
\* 80% <= actual <= 100% of req.
C21_VerdictFromRatio ==
    Called("verdictFromRatio") =>
        LET req == call.args[1]
            actual == call.args[2]
            metricsAvail == call.args[3]
            cell == call.out
        IN /\ req = 0 => cell.text = "no req"
           /\ (req > 0 /\ ~metricsAvail) => cell.text = "N/A"
           /\ (req > 0 /\ metricsAvail) =>
                 /\ cell \in {VerdictCell(v) : v \in Verdicts}
                 /\ cell = VerdictCell(VerdictMassivelyOverRequested) <=> 2 * actual < req
                 /\ cell = VerdictCell(VerdictOverRequested) <=>
                       (req <= 2 * actual /\ 5 * actual < 4 * req)
                 /\ cell = VerdictCell(VerdictBursting) <=> actual > req
                 /\ cell = VerdictCell(VerdictOK) <=>
                       (4 * req <= 5 * actual /\ actual <= req)

\* verdictFromRatio(50, 40, true), actual at 80% of the request, returned OK.
C21_Witness ==
    /\ Called("verdictFromRatio")
    /\ call.args = <<50, 40, TRUE>>
    /\ call.out = VerdictCell(VerdictOK)

\* The g.Go calls a fetch makes at most.
MaxTasks(f) ==
    CASE f = "FetchNodes" -> 4
      [] f = "FetchPods" -> 2
      [] f = "FetchWorkloads" -> 3

\* A task goes from not started to listing to done, and no other way.
TaskStep(t) ==
    \/ taskPc'[t] = taskPc[t]
    \/ taskPc[t] = "none" /\ taskPc'[t] = "listing"
    \/ taskPc[t] = "listing" /\ taskPc'[t] = "done"

\* The fetch returned a result or an error, not both and not neither.
ResultXorError ==
    \/ err = NilErr /\ result # NilResult
    \/ err # NilErr /\ result = NilResult

\* C22: with every listing call returning, every fetch eventually returns,
\* and stays returned, with exactly one of a result or an error. It makes at
\* most four (FetchNodes), two (FetchPods) or three (FetchWorkloads) g.Go
\* calls, each for a task of its own, and a task is started once: it goes
\* from listing to done and is never started or listing again.
C22_FetchTerminates ==
    /\ <>[](mainPc = "returned" /\ ResultXorError)
    /\ [](/\ spawned <= MaxTasks(fn)
          /\ Cardinality(Started) = spawned
          /\ \A t \in TaskNames : t \notin Started <=> taskPc[t] = "none"
          /\ mainPc = "returned" => ResultXorError)
    /\ [][\A t \in TaskNames : TaskStep(t)]_vars

\* A nodes fetch started four tasks and returned the error of its node
\* listing after the pod listing returned the error of the cancelled context.
C22_Witness ==
    /\ fn = "FetchNodes"
    /\ spawned = 4
    /\ mainPc = "returned"
    /\ taskErr["pods"] = "ctx"
    /\ err = "failed to list nodes: api"
    /\ result = NilResult

\* The tables FetchWorkloads followed by RenderDeployments(limit, minFactor)
\* can show for the listings and flags of this invocation: one for each order
\* the walk of the workload map can take.
Reports(limit, minFactor) ==
    { <<Table("Deployments",
              [i \in DOMAIN Limited(t, limit) |-> WorkloadRow(res, i, Limited(t, limit)[i])])>> :
        <<res, t>> \in UNION { {res} \X SortSlice(FilteredWorkloads(res, minFactor),
                                                  BySortFactor) :
                                 res \in AggregateWorkloads(slot, podMetricsAvail,
                                                            includeSystem) } }

\* C23: the workload report is a function of the listing results, the flags,
\* the limit and the min-factor: the rows RenderDeployments showed are the
\* rows of every run of FetchWorkloads and RenderDeployments on them, the
\* order of workloads of equal severity key and the workloads surviving the
\* limit included.
C23_ReportReproducible ==
    (fn = "FetchWorkloads" /\ mainPc = "rendered") =>
        Reports(renderArgs[1], renderArgs[2]) = {rows}

\* The node-metrics snapshot holds an entry for the node named name.
InNodeSnapshot(name) ==
    \E k \in DOMAIN slot["nodeMetrics"].Items : slot["nodeMetrics"].Items[k].Name = name

\* The pod-metrics snapshot holds an entry for the pod of summary pi.
InPodSnapshot(pi) ==
    \E k \in DOMAIN slot["podMetrics"].Items :
       /\ slot["podMetrics"].Items[k].Namespace = pi.Namespace
       /\ slot["podMetrics"].Items[k].Name = pi.Name

\* A pod summary without metrics shows no usage, and has metrics exactly when
\* the snapshot holds its pod.
PodSummaryFlagged(pi) ==
    /\ ~pi.MetricsAvailable => (pi.CPUActual = 0 /\ pi.MemActual = 0)
    /\ pi.MetricsAvailable <=> InPodSnapshot(pi)

\* C24: in what a fetch returns, every node, pod and workload summary whose
\* MetricsAvailable is false has actual CPU and memory 0; a node summary's
\* MetricsAvailable is true exactly when the node-metrics snapshot holds the
\* node, and a pod summary's exactly when the pod-metrics snapshot holds the
\* pod; the node and pod summaries are the same whatever the result-level
\* availability flags are.
C24_UnavailableMeansZero ==
    (mainPc = "returned" /\ err = NilErr) =>
        /\ fn = "FetchNodes" =>
              /\ \A i \in DOMAIN result.Nodes :
                    LET n == result.Nodes[i]
                    IN /\ ~n.MetricsAvailable => (n.ActualCPU = 0 /\ n.ActualMem = 0)
                       /\ n.MetricsAvailable <=> InNodeSnapshot(n.Name)
                       /\ \A k \in DOMAIN n.Pods : PodSummaryFlagged(n.Pods[k])
              /\ \A a, b \in BOOLEAN :
                    AggregateNodes(slot, a, b, withPodMetrics).Nodes = result.Nodes
        /\ fn = "FetchPods" =>
              /\ \A k \in DOMAIN result.Pods : PodSummaryFlagged(result.Pods[k])
              /\ \A a \in BOOLEAN : AggregatePods(slot, a).Pods = result.Pods
        /\ fn = "FetchWorkloads" =>
              \A i \in DOMAIN result.Workloads :
                 LET w == result.Workloads[i]
                 IN ~w.MetricsAvailable => (w.CPUActual = 0 /\ w.MemActual = 0)

\* A nodes fetch with both metrics listed returned node n1, which the node
\* snapshot holds, with metrics and node n2, which it does not hold, without
\* metrics and with no usage; on n1 a pod the pod snapshot holds with no
\* usage has metrics, and a pod it does not hold has none.
C24_Witness ==
    /\ fn = "FetchNodes"
    /\ mainPc = "returned"
    /\ err = NilErr
    /\ result.NodeMetricsAvailable
    /\ result.PodMetricsAvailable
    /\ Len(result.Nodes) = 2
    /\ result.Nodes[1].MetricsAvailable
    /\ ~result.Nodes[2].MetricsAvailable
    /\ result.Nodes[2].ActualCPU = 0
    /\ \E j, k \in DOMAIN result.Nodes[1].Pods :
          /\ result.Nodes[1].Pods[j].MetricsAvailable
          /\ result.Nodes[1].Pods[j].CPUActual = 0
          /\ ~result.Nodes[1].Pods[k].MetricsAvailable

\* The places <<node, index>> of the result where the summary of pod p is.
PlacesOf(p) ==
    { <<i, k>> \in (DOMAIN result.Nodes) \X (1..(MaxPods + 1)) :
        /\ k \in DOMAIN result.Nodes[i].Pods
        /\ result.Nodes[i].Pods[k].Namespace = p.Namespace
        /\ result.Nodes[i].Pods[k].Name = p.Name }

\* The CPU and memory requests of a pod of the listing, over its containers.
RequestsOf(p) ==
    [cpu |-> SumSeq([c \in DOMAIN p.Containers |-> p.Containers[c].cpuReq]),
     mem |-> SumSeq([c \in DOMAIN p.Containers |-> p.Containers[c].memReq])]

\* C25: in what FetchNodes returns, every node's RequestedCPU and
\* RequestedMem are the sums of CPURequest and MemRequest over its Pods list;
\* a running pod whose node name is that of a listed node is in that node's
\* Pods list, once, and in no other; a running pod with an empty node name or
\* one that no listed node bears is in no node's list, and the totals of all
\* nodes add up to the requests of the running pods on listed nodes alone.
C25_NodeTotalsMatchPods ==
    (fn = "FetchNodes" /\ mainPc = "returned" /\ err = NilErr) =>
        LET pods == slot["pods"].Items
            nodes == result.Nodes
            listedNames == {nodes[i].Name : i \in DOMAIN nodes}
            placed == SelectSeq(pods, LAMBDA p :
                         p.Phase = "Running" /\ p.NodeName \in listedNames)
        IN /\ \A i \in DOMAIN nodes :
                 /\ nodes[i].RequestedCPU =
                       SumSeq([k \in DOMAIN nodes[i].Pods |-> nodes[i].Pods[k].CPURequest])
                 /\ nodes[i].RequestedMem =
                       SumSeq([k \in DOMAIN nodes[i].Pods |-> nodes[i].Pods[k].MemRequest])
           /\ \A p \in Range(pods) :
                 p.Phase = "Running" =>
                    IF p.NodeName \in listedNames
                    THEN /\ Cardinality(PlacesOf(p)) = 1
                         /\ \A pl \in PlacesOf(p) : nodes[pl[1]].Name = p.NodeName
                    ELSE PlacesOf(p) = {}
           /\ SumSeq([i \in DOMAIN nodes |-> nodes[i].RequestedCPU]) =
                 SumSeq([k \in DOMAIN placed |-> RequestsOf(placed[k]).cpu])
           /\ SumSeq([i \in DOMAIN nodes |-> nodes[i].RequestedMem]) =
                 SumSeq([k \in DOMAIN placed |-> RequestsOf(placed[k]).mem])

\* The node listing held n1 alone and the pod listing a running pod with no
\* node name and a running pod of two containers on n2: n1 was returned with
\* no pods and totals of 0.
C25_Witness ==
    /\ fn = "FetchNodes"
    /\ mainPc = "returned"
    /\ err = NilErr
    /\ Len(result.Nodes) = 1
    /\ \E p, q \in Range(slot["pods"].Items) :
          /\ p.Phase = "Running" /\ p.NodeName = ""
          /\ q.Phase = "Running" /\ q.NodeName = "n2" /\ Len(q.Containers) = 2
    /\ result.Nodes[1].Pods = <<>>
    /\ result.Nodes[1].RequestedCPU = 0

\* The pods or workloads the fetch returned that the renderer's filters other
\* than the factor filter let through.
Entities ==
    IF fn = "FetchPods"
    THEN { p \in Range(FetchedPods) :
             renderArgs[1] \/ p.Namespace \notin SystemNamespaces }
    ELSE Range(result.Workloads)

\* The entity a row of the pods or deployments table shows.
EntityOfRow(r) == IF fn = "FetchPods" THEN PodOfRow(r) ELSE WorkloadOfRow(r)

\* The availability the renderer hands to the filter and to the verdict.
RowMetricsAvail(e) == podMetricsAvail /\ e.MetricsAvailable

\* The CPU verdict cell of entity e is Bursting.
ShowsBursting(e) ==
    verdictFromRatio(e.CPURequest, e.CPUActual, RowMetricsAvail(e)) =
        VerdictCell(VerdictBursting)

\* C26: in the pods and deployments tables the factor filter agrees with the
\* cells shown. For every fetched entity with a CPU request and metrics,
\* meetsFactorFilter with a negative threshold passes exactly when its CPU
\* verdict cell is Bursting; so a table rendered with a negative min-factor
\* shows Bursting in every row and, when no limit cuts it, a row for every
\* entity whose verdict is Bursting. In a table rendered with a positive
\* min-factor every row of an entity using some CPU shows "<q>x" with
\* q >= min-factor in its Over-req cell.
C26_FilterAgreesWithCells ==
    (fn \in {"FetchPods", "FetchWorkloads"} /\ mainPc = "rendered") =>
        LET limit == IF fn = "FetchPods" THEN renderArgs[2] ELSE renderArgs[1]
            minFactor == IF fn = "FetchPods" THEN renderArgs[3] ELSE renderArgs[2]
            table == rows[1].rows
            shown == { EntityOfRow(table[i]) : i \in DOMAIN table }
        IN /\ \A e \in Entities :
                 (e.CPURequest > 0 /\ RowMetricsAvail(e)) =>
                    \A threshold \in {-1, -5} :
                       meetsFactorFilter(e.CPURequest, e.CPUActual, RowMetricsAvail(e),
                                         threshold) <=> ShowsBursting(e)
           /\ minFactor < 0 =>
                 /\ \A i \in DOMAIN table : table[i]["CPU Verdict"].text = "Bursting"
                 /\ shown \subseteq { e \in Entities : ShowsBursting(e) }
                 /\ limit = 0 => shown = { e \in Entities : ShowsBursting(e) }
           /\ minFactor > 0 =>
                 \A i \in DOMAIN table :
                    LET e == EntityOfRow(table[i])
                    IN e.CPUActual > 0 =>
                          \E q \in minFactor..e.CPURequest :
                             table[i]["Over-req"].text = ToString(q) \o "x"

\* Two pods with a request and metrics were fetched; the pods table rendered
\* with min-factor -1 shows the one using more than it requests, Bursting,
\* and not the other.
C26_Witness ==
    /\ fn = "FetchPods"
    /\ mainPc = "rendered"
    /\ renderArgs[3] = -1
    /\ Cardinality({ e \in Entities : e.CPURequest > 0 /\ RowMetricsAvail(e) }) = 2
    /\ Len(rows[1].rows) = 1
    /\ rows[1].rows[1]["CPU Verdict"].text = "Bursting"
    /\ rows[1].rows[1]["Over-req"].text = "0x"


====
